---- MODULE Spec2Model ----
(***************************************************************************)
(* A model of the URL subsystem of wbull (src/wbull/format/url): the       *)
(* percent-encoding engine and its memoized encoder maps (encode.py), the  *)
(* path flattener (path.py), the component normalizers (norm.py), the      *)
(* query codec and the URLInfo record with its parser, its composite       *)
(* views and their setters (parse.py).                                     *)
(*                                                                         *)
(* Text is a sequence of code points and a byte string a sequence of       *)
(* numbers in 0..255, so that encoding, decoding and hexadecimal           *)
(* arithmetic are computed and not assumed.  S(<<"a", "/">>) writes the    *)
(* text "a/".  Python's None is the value None, which no text equals.      *)
(***************************************************************************)
EXTENDS Integers, Sequences, FiniteSets, TLC

VARIABLES
    cache,      \* encode.py _percent_encoder_map_cache: encode set -> (byte -> bytes)
    encCall,    \* the last percent_encode_bytes call: its arguments and result
    rt,         \* a percent_encode / percent_decode round trip in progress
    fp,         \* a flatten_path call: its arguments and result
    qc,         \* a join_query / split_query round trip in progress
    fn,         \* a call of a function of the package: its arguments and result
    info,       \* the URLInfo object in hand
    reparsed,   \* the URLInfo object parsed from the rendering of info
    op          \* the last operation on info: its arguments and outcome

vars == <<cache, encCall, rt, fp, qc, fn, info, reparsed, op>>
urlVars == <<info, reparsed, op>>

----------------------------------------------------------------------------
(* Characters and text *)

\* With([v \in {e} |-> body]) is body with v naming the value of e, as the code
\* names a local variable: e is computed once.
With(f) == f[CHOOSE v \in DOMAIN f : TRUE]

Printable ==
    << " ", "!", "\"", "#", "$", "%", "&", "'", "(", ")", "*", "+", ",", "-", ".", "/",
       "0", "1", "2", "3", "4", "5", "6", "7", "8", "9", ":", ";", "<", "=", ">", "?",
       "@", "A", "B", "C", "D", "E", "F", "G", "H", "I", "J", "K", "L", "M", "N", "O",
       "P", "Q", "R", "S", "T", "U", "V", "W", "X", "Y", "Z", "[", "\\", "]", "^", "_",
       "BACKTICK", "a", "b", "c", "d", "e", "f", "g", "h", "i", "j", "k", "l", "m", "n", "o",
       "p", "q", "r", "s", "t", "u", "v", "w", "x", "y", "z", "{", "|", "}", "~" >>

\* The code point of a printable ASCII character (0x20 is the first).
Ord(c) == CHOOSE n \in 32..126 : Printable[n - 31] = c

\* The text written as a tuple of one-character strings.
S(t) == [i \in 1..Len(t) |-> Ord(t[i])]

\* Characters the table above cannot write.
BACKTICK == Ord("a") - 1

None == <<-1>>

IsUpper(c) == c >= Ord("A") /\ c <= Ord("Z")
IsLower(c) == c >= Ord("a") /\ c <= Ord("z")
IsDigit(c) == c >= Ord("0") /\ c <= Ord("9")
IsHexDigit(c) ==
    \/ IsDigit(c)
    \/ (c >= Ord("a") /\ c <= Ord("f"))
    \/ (c >= Ord("A") /\ c <= Ord("F"))

\* str.lower() of a character below U+0100
LowerChar(c) == IF IsUpper(c) \/ (c >= 192 /\ c <= 222 /\ c # 215) THEN c + 32 ELSE c
UpperChar(c) == IF IsLower(c) THEN c - 32 ELSE c
Lower(s) == [i \in 1..Len(s) |-> LowerChar(s[i])]

HexValue(c) ==
    IF IsDigit(c) THEN c - Ord("0")
    ELSE IF c >= Ord("a") /\ c <= Ord("f") THEN 10 + c - Ord("a")
    ELSE 10 + c - Ord("A")

HexDigits == S(<<"0", "1", "2", "3", "4", "5", "6", "7", "8", "9", "A", "B", "C", "D", "E", "F">>)

Has(s, c) == \E i \in 1..Len(s) : s[i] = c

\* The index of the first (last) c in s, 0 when there is none.
Find(s, c) == IF Has(s, c) THEN CHOOSE i \in 1..Len(s) : s[i] = c /\ \A j \in 1..(i - 1) : s[j] # c ELSE 0
RFind(s, c) == IF Has(s, c) THEN CHOOSE i \in 1..Len(s) : s[i] = c /\ \A j \in (i + 1)..Len(s) : s[j] # c ELSE 0

From(s, i) == SubSeq(s, i, Len(s))
Upto(s, i) == SubSeq(s, 1, i)

\* str.partition and str.rpartition: <<head, sep, tail>>.
Partition(s, c) ==
    LET i == Find(s, c)
    IN IF i = 0 THEN <<s, <<>>, <<>>>> ELSE <<Upto(s, i - 1), <<c>>, From(s, i + 1)>>
RPartition(s, c) ==
    LET i == RFind(s, c)
    IN IF i = 0 THEN <<<<>>, <<>>, s>> ELSE <<Upto(s, i - 1), <<c>>, From(s, i + 1)>>

\* str.split(c): never empty, the empty text splits into one empty part.
RECURSIVE Split(_, _)
Split(s, c) ==
    LET i == Find(s, c)
    IN IF i = 0 THEN <<s>> ELSE <<Upto(s, i - 1)>> \o Split(From(s, i + 1), c)

\* sep.join(parts)
RECURSIVE Join(_, _)
Join(parts, sep) ==
    IF Len(parts) = 0 THEN <<>>
    ELSE IF Len(parts) = 1 THEN parts[1]
    ELSE parts[1] \o sep \o Join(Tail(parts), sep)

\* str.replace(a, b) for single characters.
Replace(s, a, b) == [i \in 1..Len(s) |-> IF s[i] = a THEN b ELSE s[i]]

\* Every sequence over alphabet of length at most n.
RECURSIVE SeqsUpTo(_, _)
SeqsUpTo(alphabet, n) ==
    IF n = 0 THEN {<<>>}
    ELSE LET shorter == SeqsUpTo(alphabet, n - 1)
         IN shorter \cup {Append(s, a) : s \in shorter, a \in alphabet}

----------------------------------------------------------------------------
(* encode.py: the encode sets *)

\* C0_CONTROL_SET built by range(1, 0x1f + 1): without NUL.
C0_CONTROL_SET_from_one == 1..31

C0_CONTROL_SET == 0..31
DEFAULT_ENCODE_SET == {Ord(" "), Ord("\""), Ord("#"), Ord("<"), Ord(">"), Ord("?"), BACKTICK}
PASSWORD_ENCODE_SET == DEFAULT_ENCODE_SET \cup {Ord("/"), Ord("@"), Ord("\\")}
USERNAME_ENCODE_SET == PASSWORD_ENCODE_SET \cup {Ord(":")}
QUERY_ENCODE_SET == {Ord("\""), Ord("#"), Ord("<"), Ord(">"), BACKTICK}
FRAGMENT_ENCODE_SET == {Ord(" "), Ord("\""), Ord("<"), Ord(">"), BACKTICK}
QUERY_KEY_ENCODE_SET == QUERY_ENCODE_SET \cup {Ord("&"), Ord("+"), Ord("%"), Ord("=")}
QUERY_VALUE_ENCODE_SET == QUERY_ENCODE_SET \cup {Ord("&"), Ord("+"), Ord("%")}
FORBIDDEN_HOSTNAME_CHARS ==
    {Ord("#"), Ord("%"), Ord("/"), Ord(":"), Ord("?"), Ord("@"), Ord("["), Ord("\\"), Ord("]"), Ord(" ")}

----------------------------------------------------------------------------
(* encode.py: PercentEncoderMap and the module-level cache *)

\* '%{:02X}'.format(char).encode('ascii')
PercentEscape(char) == <<Ord("%"), HexDigits[(char \div 16) + 1], HexDigits[(char % 16) + 1]>>

\* A slip in the upper boundary: 0x7F passes through.
EncoderMapMissing_del_passes(encode_set, char) ==
    IF char < 32 \/ char > 127 \/ char \in encode_set
    THEN <<Ord("%"), HexDigits[(char \div 16) + 1], HexDigits[(char % 16) + 1]>>
    ELSE <<char>>

\* PercentEncoderMap.__missing__: the value computed (and then stored) for char.
EncoderMapMissing(encode_set, char) ==
    IF char < 32 \/ char > 126 \/ char \in encode_set
    THEN PercentEscape(char)
    ELSE <<char>>

\* _get_percent_encoder_map: the cache after the lookup; a miss stores an empty map.
get_percent_encoder_map(c, encode_set) ==
    IF encode_set \in DOMAIN c THEN c ELSE c @@ (encode_set :> <<>>)

\* The generator of percent_encode_bytes from byte i on: the mapper's __getitem__
\* answers from the memoized entries and falls to __missing__, which memoizes.
RECURSIVE EncodeFrom(_, _, _, _)
EncodeFrom(mapper, encode_set, data, i) ==
    IF i > Len(data) THEN [out |-> <<>>, mapper |-> mapper]
    ELSE With([value \in {IF data[i] \in DOMAIN mapper THEN mapper[data[i]]
                          ELSE EncoderMapMissing(encode_set, data[i])} |->
         With([rest \in {EncodeFrom(IF data[i] \in DOMAIN mapper THEN mapper ELSE mapper @@ (data[i] :> value),
                                    encode_set, data, i + 1)} |->
             [out |-> value \o rest.out, mapper |-> rest.mapper]])])

\* percent_encode_bytes(data, encode_set) called with the cache c:
\* the bytes returned and the cache left behind.
percent_encode_bytes(c, data, encode_set) ==
    With([c1 \in {get_percent_encoder_map(c, encode_set)} |->
    With([r \in {EncodeFrom(c1[encode_set], encode_set, data, 1)} |->
        [out |-> r.out, cache |-> [c1 EXCEPT ![encode_set] = r.mapper]]])])

----------------------------------------------------------------------------
(* str.encode('utf-8') and bytes.decode('utf-8') as percent_encode and     *)
(* percent_decode use them                                                 *)

IsSurrogate(cp) == cp >= 55296 /\ cp <= 57343

Utf8Char(cp) ==
    IF cp < 128 THEN <<cp>>
    ELSE IF cp < 2048 THEN <<192 + (cp \div 64), 128 + (cp % 64)>>
    ELSE IF cp < 65536 THEN <<224 + (cp \div 4096), 128 + ((cp \div 64) % 64), 128 + (cp % 64)>>
    ELSE <<240 + (cp \div 262144), 128 + ((cp \div 4096) % 64), 128 + ((cp \div 64) % 64), 128 + (cp % 64)>>

RECURSIVE Utf8Bytes(_)
Utf8Bytes(text) == IF Len(text) = 0 THEN <<>> ELSE Utf8Char(Head(text)) \o Utf8Bytes(Tail(text))

\* text.encode('utf-8', errors='strict'): a lone surrogate raises UnicodeEncodeError.
Utf8Encode(text) ==
    IF \E i \in 1..Len(text) : IsSurrogate(text[i])
    THEN [ok |-> FALSE, bytes |-> <<>>]
    ELSE [ok |-> TRUE, bytes |-> Utf8Bytes(text)]

IsCont(b) == b >= 128 /\ b <= 191

\* The length of the well-formed UTF-8 sequence that starts at data[i], 0 when
\* data[i] starts none.
Utf8SeqLen(data, i) ==
    LET b == data[i]
        has(k) == i + k <= Len(data)
        c1 == data[i + 1]
        c2 == data[i + 2]
        c3 == data[i + 3]
    IN IF b < 128 THEN 1
       ELSE IF b >= 194 /\ b <= 223 THEN (IF has(1) /\ IsCont(c1) THEN 2 ELSE 0)
       ELSE IF b >= 224 /\ b <= 239
            THEN (IF /\ has(2) /\ IsCont(c1) /\ IsCont(c2)
                     /\ (b = 224 => c1 >= 160)
                     /\ (b = 237 => c1 <= 159)
                  THEN 3 ELSE 0)
       ELSE IF b >= 240 /\ b <= 244
            THEN (IF /\ has(3) /\ IsCont(c1) /\ IsCont(c2) /\ IsCont(c3)
                     /\ (b = 240 => c1 >= 144)
                     /\ (b = 244 => c1 <= 143)
                  THEN 4 ELSE 0)
       ELSE 0

Utf8CodePoint(data, i, n) ==
    IF n = 1 THEN data[i]
    ELSE IF n = 2 THEN (data[i] - 192) * 64 + (data[i + 1] - 128)
    ELSE IF n = 3 THEN (data[i] - 224) * 4096 + (data[i + 1] - 128) * 64 + (data[i + 2] - 128)
    ELSE (data[i] - 240) * 262144 + (data[i + 1] - 128) * 4096
             + (data[i + 2] - 128) * 64 + (data[i + 3] - 128)

\* The bytes a failed sequence at data[i] consumes under errors='replace': the
\* lead byte and the continuation bytes that were acceptable after it.
Utf8BadLen(data, i) ==
    LET b == data[i]
        want == IF b >= 194 /\ b <= 223 THEN 1
                ELSE IF b >= 224 /\ b <= 239 THEN 2
                ELSE IF b >= 240 /\ b <= 244 THEN 3 ELSE 0
        ok1 == /\ want >= 1 /\ i + 1 <= Len(data) /\ IsCont(data[i + 1])
               /\ (b = 224 => data[i + 1] >= 160)
               /\ (b = 237 => data[i + 1] <= 159)
               /\ (b = 240 => data[i + 1] >= 144)
               /\ (b = 244 => data[i + 1] <= 143)
        ok2 == ok1 /\ want >= 2 /\ i + 2 <= Len(data) /\ IsCont(data[i + 2])
    IN IF ok2 THEN 3 ELSE IF ok1 THEN 2 ELSE 1

\* data.decode('utf-8', errors): errors='strict' raises on a malformed sequence,
\* errors='replace' writes U+FFFD for it.
RECURSIVE Utf8DecodeFrom(_, _, _)
Utf8DecodeFrom(data, i, strict) ==
    IF i > Len(data) THEN [ok |-> TRUE, text |-> <<>>]
    ELSE With([n \in {Utf8SeqLen(data, i)} |->
             IF n = 0 /\ strict THEN [ok |-> FALSE, text |-> <<>>]
             ELSE With([step \in {IF n = 0 THEN Utf8BadLen(data, i) ELSE n} |->
                  With([rest \in {Utf8DecodeFrom(data, i + step, strict)} |->
                      [ok |-> rest.ok,
                       text |-> <<IF n = 0 THEN 65533 ELSE Utf8CodePoint(data, i, n)>> \o rest.text]])])])

Utf8Decode(data, strict) == Utf8DecodeFrom(data, 1, strict)

----------------------------------------------------------------------------
(* encode.py: percent_encode, percent_encode_plus, percent_decode *)

\* percent_encode(text, encode_set) with encoding='utf-8', errors='strict',
\* called with the cache c.  ok is FALSE when text.encode raises.
percent_encode(c, text, encode_set) ==
    With([data \in {Utf8Encode(text)} |->
        IF data.ok
        THEN With([r \in {percent_encode_bytes(c, data.bytes, encode_set)} |->
                 [ok |-> TRUE, out |-> r.out, cache |-> r.cache]])
        ELSE [ok |-> FALSE, out |-> <<>>, cache |-> c]])

\* percent_encode_plus: percent_encode(...).replace(' ', '+')
percent_encode_plus(c, text, encoding_set) ==
    With([r \in {percent_encode(c, text, encoding_set)} |->
        [r EXCEPT !.out = Replace(r.out, Ord(" "), Ord("+"))]])

percent_encode_query_key(c, text) == percent_encode_plus(c, text, QUERY_KEY_ENCODE_SET)
percent_encode_query_value(c, text) == percent_encode_plus(c, text, QUERY_VALUE_ENCODE_SET)

\* urllib.parse.unquote_to_bytes on an ASCII run: '%' and two hex digits make a
\* byte, any other '%' stays.
RECURSIVE UnquoteToBytes(_, _)
UnquoteToBytes(s, i) ==
    IF i > Len(s) THEN <<>>
    ELSE IF /\ s[i] = Ord("%") /\ i + 2 <= Len(s)
            /\ IsHexDigit(s[i + 1]) /\ IsHexDigit(s[i + 2])
         THEN <<16 * HexValue(s[i + 1]) + HexValue(s[i + 2])>> \o UnquoteToBytes(s, i + 3)
         ELSE <<s[i]>> \o UnquoteToBytes(s, i + 1)

\* The end of the run of ASCII (or of non-ASCII) characters that starts at s[i].
RECURSIVE RunEnd(_, _)
RunEnd(s, i) ==
    IF i < Len(s) /\ ((s[i] < 128) <=> (s[i + 1] < 128)) THEN RunEnd(s, i + 1) ELSE i

\* urllib.parse.unquote: each ASCII run is unquoted to bytes and decoded, the
\* non-ASCII runs between them are kept.
RECURSIVE UnquoteFrom(_, _, _)
UnquoteFrom(s, i, strict) ==
    IF i > Len(s) THEN [ok |-> TRUE, text |-> <<>>]
    ELSE With([j \in {RunEnd(s, i)} |->
         With([dec \in {IF s[i] < 128 THEN Utf8Decode(UnquoteToBytes(SubSeq(s, i, j), 1), strict)
                        ELSE [ok |-> TRUE, text |-> SubSeq(s, i, j)]} |->
         With([rest \in {UnquoteFrom(s, j + 1, strict)} |->
             [ok |-> dec.ok /\ rest.ok, text |-> dec.text \o rest.text]])])])

\* unquote_plus bound in place of unquote.
percent_decode_as_unquote_plus(string, strict) ==
    UnquoteFrom(Replace(string, Ord("+"), Ord(" ")), 1, strict)

\* percent_decode = urllib.parse.unquote(string, encoding='utf-8', errors)
percent_decode(string, strict) == UnquoteFrom(string, 1, strict)

\* percent_decode_plus = urllib.parse.unquote_plus
percent_decode_plus(string, strict) == percent_decode(Replace(string, Ord("+"), Ord(" ")), strict)

\* uppercase_percent_encoding: re.sub(r'%[a-fA-F0-9][a-fA-F0-9]', upper, text)
RECURSIVE UppercaseFrom(_, _)
UppercaseFrom(text, i) ==
    IF i > Len(text) THEN <<>>
    ELSE IF /\ text[i] = Ord("%") /\ i + 2 <= Len(text)
            /\ IsHexDigit(text[i + 1]) /\ IsHexDigit(text[i + 2])
         THEN <<text[i], UpperChar(text[i + 1]), UpperChar(text[i + 2])>> \o UppercaseFrom(text, i + 3)
         ELSE <<text[i]>> \o UppercaseFrom(text, i + 1)

uppercase_percent_encoding(text) == UppercaseFrom(text, 1)

----------------------------------------------------------------------------
(* path.py: flatten_path *)

DOT == S(<<".">>)
DOTDOT == S(<<".", ".">>)
SLASH == S(<<"/">>)

\* The loop of flatten_path over parts[i..], new_parts being the deque so far.
RECURSIVE FlattenParts(_, _, _)
FlattenParts(parts, i, new_parts) ==
    IF i > Len(parts) THEN new_parts
    ELSE IF parts[i] = DOT THEN FlattenParts(parts, i + 1, new_parts)
    ELSE IF parts[i] # DOTDOT THEN FlattenParts(parts, i + 1, Append(new_parts, parts[i]))
    ELSE IF Len(new_parts) > 0 THEN FlattenParts(parts, i + 1, Upto(new_parts, Len(new_parts) - 1))
    ELSE FlattenParts(parts, i + 1, new_parts)

\* re.sub(r'/+', '/', new_path)
RECURSIVE FlattenSlashes(_, _)
FlattenSlashes(new_path, i) ==
    IF i > Len(new_path) THEN <<>>
    ELSE IF new_path[i] = Ord("/") /\ i > 1 /\ new_path[i - 1] = Ord("/")
         THEN FlattenSlashes(new_path, i + 1)
         ELSE <<new_path[i]>> \o FlattenSlashes(new_path, i + 1)

\* Slashes collapsed before the dot segments are processed.
flatten_path_slashes_first(path, flatten_slashes) ==
    Join(FlattenParts(Split(IF flatten_slashes THEN FlattenSlashes(path, 1) ELSE path, Ord("/")),
                      1, <<>>), SLASH)

flatten_path(path, flatten_slashes) ==
    With([parts \in {Split(path, Ord("/"))} |->
    With([new_parts \in {FlattenParts(parts, 1, <<>>)} |->
    With([new_path \in {Join(new_parts, SLASH)} |->
        IF flatten_slashes THEN FlattenSlashes(new_path, 1) ELSE new_path])])])

----------------------------------------------------------------------------
(* Python's str.strip, int() and '{}'.format as parse.py uses them *)

\* The characters str.strip() and int() treat as whitespace, among the code
\* points below U+0100.
WHITESPACE == {9, 10, 11, 12, 13, 28, 29, 30, 31, 32, 133, 160}

RECURSIVE LStrip(_)
LStrip(s) == IF Len(s) > 0 /\ Head(s) \in WHITESPACE THEN LStrip(Tail(s)) ELSE s
RECURSIVE RStrip(_)
RStrip(s) == IF Len(s) > 0 /\ s[Len(s)] \in WHITESPACE THEN RStrip(Upto(s, Len(s) - 1)) ELSE s
Strip(s) == RStrip(LStrip(s))

StartsWith(s, prefix) == Len(s) >= Len(prefix) /\ Upto(s, Len(prefix)) = prefix
EndsWith(s, suffix) == Len(s) >= Len(suffix) /\ From(s, Len(s) - Len(suffix) + 1) = suffix

\* The value of a digit character, 99 for any other character.
DigitValue(c) ==
    IF IsDigit(c) THEN c - Ord("0")
    ELSE IF c >= Ord("a") /\ c <= Ord("z") THEN 10 + c - Ord("a")
    ELSE IF c >= Ord("A") /\ c <= Ord("Z") THEN 10 + c - Ord("A")
    ELSE 99

\* Digits of the base with single underscores between them.
DigitsOk(s, base) ==
    /\ Len(s) > 0
    /\ \A i \in 1..Len(s) : s[i] = Ord("_") \/ DigitValue(s[i]) < base
    /\ s[1] # Ord("_") /\ s[Len(s)] # Ord("_")
    /\ \A i \in 1..(Len(s) - 1) : ~(s[i] = Ord("_") /\ s[i + 1] = Ord("_"))

\* A number is kept as 65536 * hi + lo; over says that it reached 2^32.
RECURSIVE Accumulate(_, _, _, _)
Accumulate(s, i, base, acc) ==
    IF i > Len(s) THEN acc
    ELSE IF s[i] = Ord("_") THEN Accumulate(s, i + 1, base, acc)
    ELSE With([lo \in {acc.lo * base + DigitValue(s[i])} |->
         With([hi \in {acc.hi * base + (lo \div 65536)} |->
             Accumulate(s, i + 1, base,
                        [hi |-> hi % 65536, lo |-> lo % 65536, over |-> acc.over \/ hi >= 65536])])])

\* int(text, base) for base 8, 10 and 16: surrounding whitespace, a sign, the
\* prefix of the base and underscores are accepted as Python accepts them.
\* ok is FALSE where int raises ValueError.
IntParse(text, base) ==
    With([t \in {Strip(text)} |->
    With([signed \in {Len(t) > 0 /\ t[1] \in {Ord("+"), Ord("-")}} |->
    With([body \in {IF signed THEN Tail(t) ELSE t} |->
    With([prefixed \in {Len(body) >= 2 /\ body[1] = Ord("0")
                            /\ ((base = 16 /\ body[2] \in {Ord("x"), Ord("X")})
                                   \/ (base = 8 /\ body[2] \in {Ord("o"), Ord("O")}))} |->
    With([after \in {IF prefixed THEN From(body, 3) ELSE body} |->
    With([digits \in {IF prefixed /\ Len(after) > 0 /\ after[1] = Ord("_") THEN Tail(after) ELSE after} |->
        IF DigitsOk(digits, base)
        THEN With([acc \in {Accumulate(digits, 1, base, [hi |-> 0, lo |-> 0, over |-> FALSE])} |->
                 [ok |-> TRUE,
                  neg |-> signed /\ t[1] = Ord("-") /\ (acc.hi # 0 \/ acc.lo # 0 \/ acc.over),
                  hi |-> acc.hi, lo |-> acc.lo, over |-> acc.over]])
        ELSE [ok |-> FALSE, neg |-> FALSE, hi |-> 0, lo |-> 0, over |-> FALSE]])])])])])])

\* '{}'.format(n) for a natural number
RECURSIVE Decimal(_)
Decimal(n) == IF n < 10 THEN <<Ord("0") + n>> ELSE Append(Decimal(n \div 10), Ord("0") + (n % 10))

\* '%x' % n
RECURSIVE LowerHex(_)
LowerHex(n) ==
    With([c \in {IF n % 16 < 10 THEN Ord("0") + (n % 16) ELSE Ord("a") + (n % 16) - 10} |->
        IF n < 16 THEN <<c>> ELSE Append(LowerHex(n \div 16), c)])

----------------------------------------------------------------------------
(* parse.py: parse_ipv4_int, parse_ipv4_address, and the ipaddress classes *)
(* they return.  An address is [version, words, scope_id]: four octets or  *)
(* eight hextets.                                                          *)

NoAddress == [ok |-> FALSE, version |-> 0, words |-> <<>>, scope_id |-> None]

parse_ipv4_int(text) ==
    IntParse(text, IF StartsWith(text, S(<<"0", "x">>)) THEN 16
                   ELSE IF StartsWith(text, S(<<"0">>)) THEN 8
                   ELSE 10)

\* ipaddress.IPv4Address._parse_octet: [ok, value]
ParseOctet(octet_str) ==
    IF /\ Len(octet_str) > 0 /\ Len(octet_str) <= 3
       /\ \A i \in 1..Len(octet_str) : IsDigit(octet_str[i])
       /\ (octet_str = S(<<"0">>) \/ octet_str[1] # Ord("0"))
    THEN With([octet_int \in {IntParse(octet_str, 10)} |->
             IF octet_int.lo <= 255 THEN [ok |-> TRUE, value |-> octet_int.lo]
             ELSE [ok |-> FALSE, value |-> 0]])
    ELSE [ok |-> FALSE, value |-> 0]

\* ipaddress.IPv4Address(address) for a string: the strict dotted quad.
IPv4Address(address) ==
    With([octets \in {Split(address, Ord("."))} |->
    With([parsed \in {[i \in 1..Len(octets) |-> ParseOctet(octets[i])]} |->
        IF Len(octets) = 4 /\ \A i \in 1..4 : parsed[i].ok
        THEN [ok |-> TRUE, version |-> 4, words |-> [i \in 1..4 |-> parsed[i].value],
              scope_id |-> None]
        ELSE NoAddress])])

\* parse_ipv4_address: ok is FALSE where it raises ValueError.
parse_ipv4_address(address) ==
    With([strict \in {IPv4Address(address)} |->
    With([parts \in {Split(address, Ord("."))} |->
        IF strict.ok THEN strict
        ELSE IF Len(parts) = 4
        THEN With([value \in {[i \in 1..4 |-> parse_ipv4_int(parts[i])]} |->
                 IF \A i \in 1..4 : /\ value[i].ok /\ ~value[i].neg /\ ~value[i].over
                                     /\ value[i].hi = 0 /\ value[i].lo <= 255
                 THEN [ok |-> TRUE, version |-> 4, words |-> [i \in 1..4 |-> value[i].lo],
                       scope_id |-> None]
                 ELSE NoAddress])
        ELSE IF Len(parts) = 1
        THEN With([whole \in {parse_ipv4_int(address)} |->
                 IF whole.ok /\ ~whole.neg /\ ~whole.over
                 THEN [ok |-> TRUE, version |-> 4,
                       words |-> <<whole.hi \div 256, whole.hi % 256, whole.lo \div 256, whole.lo % 256>>,
                       scope_id |-> None]
                 ELSE NoAddress])
        ELSE NoAddress])])

\* ipaddress.IPv6Address._parse_hextet: [ok, value]
ParseHextet(hextet_str) ==
    IF /\ Len(hextet_str) > 0 /\ Len(hextet_str) <= 4
       /\ \A i \in 1..Len(hextet_str) : IsHexDigit(hextet_str[i])
    THEN [ok |-> TRUE, value |-> IntParse(hextet_str, 16).lo]
    ELSE [ok |-> FALSE, value |-> 0]

\* ipaddress.IPv6Address._ip_int_from_string on the text before the scope id.
IPv6Words(ip_str) ==
    With([parts0 \in {Split(ip_str, Ord(":"))} |->
    With([suffixed \in {Has(parts0[Len(parts0)], Ord("."))} |->
    With([v4 \in {IF suffixed THEN IPv4Address(parts0[Len(parts0)]) ELSE NoAddress} |->
    With([parts \in {IF suffixed /\ v4.ok
                     THEN Upto(parts0, Len(parts0) - 1)
                              \o << LowerHex(v4.words[1] * 256 + v4.words[2]),
                                    LowerHex(v4.words[3] * 256 + v4.words[4]) >>
                     ELSE parts0} |->
    With([n \in {Len(parts)} |->
    With([gaps \in {{i \in 2..(n - 1) : Len(parts[i]) = 0}} |->
    With([skip \in {IF gaps = {} THEN 0 ELSE CHOOSE i \in gaps : TRUE} |->
    With([hi \in {IF Len(parts[1]) = 0 THEN skip - 2 ELSE skip - 1} |->
    With([lo \in {IF Len(parts[n]) = 0 THEN n - skip - 1 ELSE n - skip} |->
    With([skipped \in {8 - (hi + lo)} |->
        IF /\ Len(ip_str) > 0
           /\ Len(parts0) >= 3
           /\ (suffixed => v4.ok)
           /\ n <= 9
           /\ IF Cardinality(gaps) = 1
              THEN /\ (Len(parts[1]) = 0 => hi = 0)
                   /\ (Len(parts[n]) = 0 => lo = 0)
                   /\ skipped >= 1
              ELSE /\ Cardinality(gaps) = 0
                   /\ n = 8
        THEN With([hextet \in {[k \in 1..8 |->
                                   IF gaps # {} /\ k > hi /\ k <= hi + skipped
                                   THEN [ok |-> TRUE, value |-> 0]
                                   ELSE ParseHextet(parts[IF gaps = {} \/ k <= hi THEN k
                                                          ELSE n - lo + (k - hi - skipped)])]} |->
                 IF \A k \in 1..8 : hextet[k].ok
                 THEN [ok |-> TRUE, words |-> [k \in 1..8 |-> hextet[k].value]]
                 ELSE [ok |-> FALSE, words |-> <<>>]])
        ELSE [ok |-> FALSE, words |-> <<>>]])])])])])])])])])])

\* ipaddress.IPv6Address(address) for a string: [ok, version, words, scope_id]
IPv6Address(address) ==
    With([p \in {Partition(address, Ord("%"))} |->
    With([w \in {IPv6Words(p[1])} |->
        IF /\ ~Has(address, Ord("/"))
           /\ (Len(p[2]) > 0 => (Len(p[3]) > 0 /\ ~Has(p[3], Ord("%"))))
           /\ w.ok
        THEN [ok |-> TRUE, version |-> 6, words |-> w.words,
              scope_id |-> IF Len(p[2]) > 0 THEN p[3] ELSE None]
        ELSE NoAddress])])

\* The length of the run of zero hextets that starts at words[i].
RECURSIVE ZeroRun(_, _)
ZeroRun(words, i) == IF i <= Len(words) /\ words[i] = 0 THEN 1 + ZeroRun(words, i + 1) ELSE 0

\* ipaddress: _compress_hextets and ':'.join
CompressHextets(words) ==
    With([best \in {CHOOSE i \in 1..8 :
                        /\ \A j \in 1..8 : ZeroRun(words, j) <= ZeroRun(words, i)
                        /\ \A j \in 1..(i - 1) : ZeroRun(words, j) < ZeroRun(words, i)} |->
    With([len \in {ZeroRun(words, best)} |->
    With([hex \in {[k \in 1..8 |-> LowerHex(words[k])]} |->
        IF len > 1
        THEN Join(Upto(hex, best - 1), S(<<":">>)) \o S(<<":", ":">>)
                 \o Join(From(hex, best + len), S(<<":">>))
        ELSE Join(hex, S(<<":">>))])])])

\* address.compressed
Compressed(address) ==
    IF address.version = 4
    THEN Join([k \in 1..4 |-> Decimal(address.words[k])], S(<<".">>))
    ELSE CompressHextets(address.words)
             \o (IF address.scope_id # None THEN S(<<"%">>) \o address.scope_id ELSE <<>>)

----------------------------------------------------------------------------
(* norm.py *)

\* hostname.encode('idna') for an ASCII hostname: every label but the last has 1
\* to 63 characters and the last at most 63.  Hostnames of the model are ASCII.
IdnaOk(hostname) ==
    LET labels == Split(hostname, Ord("."))
    IN \/ Len(hostname) = 0
       \/ /\ \A i \in 1..(Len(labels) - 1) : Len(labels[i]) > 0 /\ Len(labels[i]) < 64
          /\ Len(labels[Len(labels)]) < 64

\* normalize_hostname: ok is FALSE where it raises UnicodeError.
normalize_hostname(hostname) ==
    IF IdnaOk(hostname) THEN [ok |-> TRUE, out |-> Lower(hostname)]
    ELSE [ok |-> FALSE, out |-> <<>>]

\* normalize_path called with the cache c
\* normalize_path without the call of uppercase_percent_encoding.
normalize_path_as_encoded(c, path) ==
    percent_encode(c, flatten_path(path, TRUE), DEFAULT_ENCODE_SET)

normalize_path(c, path) ==
    With([r \in {percent_encode(c, flatten_path(path, TRUE), DEFAULT_ENCODE_SET)} |->
        [r EXCEPT !.out = uppercase_percent_encoding(r.out)]])

\* normalize_query called with the cache c
\* normalize_query with '%' in the set of the bytes it encodes.
normalize_query_encoding_percent(c, text) ==
    With([r \in {percent_encode_plus(c, text, QUERY_ENCODE_SET \cup {Ord("%")})} |->
        [r EXCEPT !.out = uppercase_percent_encoding(r.out)]])

normalize_query(c, text) ==
    With([r \in {percent_encode_plus(c, text, QUERY_ENCODE_SET)} |->
        [r EXCEPT !.out = uppercase_percent_encoding(r.out)]])

----------------------------------------------------------------------------
(* Calls of percent_encode_bytes against the shared cache *)

MaxDataLen == 2

\* Bytes on both sides of each boundary of __missing__: 0x1F, 0x20 (in the
\* default set, not in the query set), 0x7E and 0x7F.
ByteAlphabet == {31, Ord(" "), Ord("~"), 127}
ByteStrings == SeqsUpTo(ByteAlphabet, MaxDataLen)
CallEncodeSets == {DEFAULT_ENCODE_SET, QUERY_ENCODE_SET}

NoCall == [data |-> <<>>, encode_set |-> {}, out |-> <<>>, reused |-> FALSE, made |-> FALSE]
NoRoundTrip == [pc |-> "idle"]
NoFlatten == [pc |-> "idle"]
NoQuery == [pc |-> "idle"]
NoFn == [pc |-> "idle"]
NoInfo == [scheme |-> None]
NoOp == [pc |-> "idle"]

InitBytes ==
    /\ cache = <<>>
    /\ info = NoInfo
    /\ reparsed = NoInfo
    /\ op = NoOp
    /\ encCall = NoCall
    /\ rt = NoRoundTrip
    /\ fp = NoFlatten
    /\ qc = NoQuery
    /\ fn = NoFn

\* One call percent_encode_bytes(data, encode_set); reused records that the
\* call found the map of encode_set already in the cache.
PercentEncodeBytesCall ==
    \E data \in ByteStrings, encode_set \in CallEncodeSets :
        \E r \in {percent_encode_bytes(cache, data, encode_set)} :
            /\ cache' = r.cache
            /\ encCall' = [data |-> data, encode_set |-> encode_set, out |-> r.out,
                           reused |-> encode_set \in DOMAIN cache, made |-> TRUE]
            /\ UNCHANGED <<rt, fp, qc, fn, urlVars>>

NextBytes == PercentEncodeBytesCall

SpecBytes == InitBytes /\ [][NextBytes]_vars

IsUpperHexDigit(c) == IsDigit(c) \/ (c >= Ord("A") /\ c <= Ord("F"))

\* out is data mapped byte by byte and in order as the contract of
\* percent_encode_bytes says: '%' and two uppercase hex digits of the value for a
\* byte below 0x20, at or above 0x7F or in encode_set, the byte itself otherwise.
RECURSIVE EncodedByteWise(_, _, _)
EncodedByteWise(data, encode_set, out) ==
    IF Len(data) = 0 THEN Len(out) = 0
    ELSE LET b == Head(data)
         IN IF b < 32 \/ b >= 127 \/ b \in encode_set
            THEN /\ Len(out) >= 3
                 /\ out[1] = Ord("%")
                 /\ IsUpperHexDigit(out[2]) /\ IsUpperHexDigit(out[3])
                 /\ 16 * HexValue(out[2]) + HexValue(out[3]) = b
                 /\ EncodedByteWise(Tail(data), encode_set, SubSeq(out, 4, Len(out)))
            ELSE /\ Len(out) >= 1
                 /\ out[1] = b
                 /\ EncodedByteWise(Tail(data), encode_set, Tail(out))

\* C7: every call of percent_encode_bytes, the first for an encode set and the
\* later ones that find its memoized map, returns the input mapped byte by byte:
\* control bytes, bytes at or above 0x7F and bytes of the encode set as %XX in
\* uppercase, every other byte unchanged.
C7_EncodeBytesByteWise ==
    encCall.made => EncodedByteWise(encCall.data, encCall.encode_set, encCall.out)

\* A later call that reuses a map, on data with an escaped and a plain byte.
C7_Witness ==
    /\ encCall.made /\ encCall.reused
    /\ encCall.data = <<127, Ord(" ")>>
    /\ encCall.encode_set = QUERY_ENCODE_SET
    /\ encCall.out = S(<<"%", "7", "F", " ">>)
    /\ DEFAULT_ENCODE_SET \in DOMAIN cache /\ Ord(" ") \in DOMAIN cache[DEFAULT_ENCODE_SET]

----------------------------------------------------------------------------
(* percent_decode(percent_encode(text, encode_set)) *)

MaxTextLen == 3

\* 'a', '%', '4', ' ', '+', U+00E9 (two bytes in UTF-8), U+20AC (three bytes)
TextAlphabet == {Ord("a"), Ord("%"), Ord("4"), Ord(" "), Ord("+"), 233, 8364}
Texts == SeqsUpTo(TextAlphabet, MaxTextLen)
RoundTripEncodeSets == {{}, DEFAULT_ENCODE_SET, {Ord("4"), Ord("a")}}

InitRoundTrip ==
    /\ cache = <<>>
    /\ info = NoInfo
    /\ reparsed = NoInfo
    /\ op = NoOp
    /\ encCall = NoCall
    /\ fp = NoFlatten
    /\ qc = NoQuery
    /\ fn = NoFn
    /\ \E text \in Texts, encode_set \in RoundTripEncodeSets :
           rt = [pc |-> "start", text |-> text, encode_set |-> encode_set,
                 encoded |-> <<>>, decoded |-> <<>>]

\* encoded = percent_encode(text, encode_set)
RoundTripEncode ==
    /\ rt.pc = "start"
    /\ \E r \in {percent_encode(cache, rt.text, rt.encode_set)} :
           /\ cache' = r.cache
           /\ rt' = IF r.ok THEN [rt EXCEPT !.pc = "encoded", !.encoded = r.out]
                    ELSE [rt EXCEPT !.pc = "raised"]
    /\ UNCHANGED <<encCall, fp, qc, fn, urlVars>>

\* decoded = percent_decode(encoded), errors='replace' being unquote's default
RoundTripDecode ==
    /\ rt.pc = "encoded"
    /\ rt' = [rt EXCEPT !.pc = "done", !.decoded = percent_decode(rt.encoded, FALSE).text]
    /\ UNCHANGED <<cache, encCall, fp, qc, fn, urlVars>>

NextRoundTrip == RoundTripEncode \/ RoundTripDecode

SpecRoundTrip == InitRoundTrip /\ [][NextRoundTrip]_vars

\* C8: for a text without a literal '%' and any encode set, decoding the
\* percent-encoded text gives the text back.
C8_DecodeInvertsEncode ==
    (rt.pc = "done" /\ ~Has(rt.text, Ord("%"))) => rt.decoded = rt.text

\* A round trip of a text with a space, a '+' and a two-byte character, which
\* the encoder escaped.
C8_Witness ==
    /\ rt.pc = "done"
    /\ rt.text = <<Ord(" "), Ord("+"), 233>>
    /\ rt.encode_set = DEFAULT_ENCODE_SET
    /\ rt.encoded = S(<<"%", "2", "0", "+", "%", "C", "3", "%", "A", "9">>)
    /\ rt.decoded = rt.text

----------------------------------------------------------------------------
(* Calls of flatten_path *)

MaxPathLen == 6

PathAlphabet == {Ord("/"), Ord("."), Ord("a")}

\* The paths the documentation and the tests of flatten_path name.
NamedPaths ==
    { S(<<"d", "o", "g", "/", "c", "a", "t", "/", ".", ".", "/", "b", "i", "r", "d">>),
      S(<<".", ".", "/", ".", ".", "/">>),
      S(<<"a", "/", "/", "/", "/", ".", ".", "/", ".", ".", "/", "b">>),
      S(<<"a", "/", "/", "b", "/", "/", ".", ".", "/", ".", ".", "/", "c", "/", "/", "d">>) }

Paths == SeqsUpTo(PathAlphabet, MaxPathLen) \cup NamedPaths

InitPath ==
    /\ cache = <<>>
    /\ info = NoInfo
    /\ reparsed = NoInfo
    /\ op = NoOp
    /\ encCall = NoCall
    /\ rt = NoRoundTrip
    /\ qc = NoQuery
    /\ fn = NoFn
    /\ \E path \in Paths, flatten_slashes \in BOOLEAN :
           fp = [pc |-> "start", path |-> path, flatten_slashes |-> flatten_slashes, out |-> <<>>]

\* out = flatten_path(path, flatten_slashes)
FlattenPathCall ==
    /\ fp.pc = "start"
    /\ fp' = [fp EXCEPT !.pc = "done", !.out = flatten_path(fp.path, fp.flatten_slashes)]
    /\ UNCHANGED <<cache, encCall, rt, qc, fn, urlVars>>

NextPath == FlattenPathCall

SpecPath == InitPath /\ [][NextPath]_vars

\* The stack algorithm read from the right: a segment is retained unless it is a
\* dot segment or one of the skip '..' segments to its right, not yet used up,
\* removes it.
RECURSIVE RetainedBefore(_, _, _)
RetainedBefore(parts, i, skip) ==
    IF i = 0 THEN <<>>
    ELSE IF parts[i] = DOT THEN RetainedBefore(parts, i - 1, skip)
    ELSE IF parts[i] = DOTDOT THEN RetainedBefore(parts, i - 1, skip + 1)
    ELSE IF skip > 0 THEN RetainedBefore(parts, i - 1, skip - 1)
    ELSE Append(RetainedBefore(parts, i - 1, 0), parts[i])

\* s without every '/' that follows a '/'.
RECURSIVE SingleSlashes(_)
SingleSlashes(s) ==
    IF Len(s) <= 1 THEN s
    ELSE LET n == Len(s)
             init == SingleSlashes(Upto(s, n - 1))
         IN IF s[n] = Ord("/") /\ s[n - 1] = Ord("/") THEN init ELSE Append(init, s[n])

ReferenceFlatten(path, flatten_slashes) ==
    LET parts == Split(path, Ord("/"))
        joined == Join(RetainedBefore(parts, Len(parts), 0), SLASH)
    IN IF flatten_slashes THEN SingleSlashes(joined) ELSE joined

HasDotSegment(path) ==
    \E i \in 1..Len(Split(path, Ord("/"))) :
        Split(path, Ord("/"))[i] \in {DOT, DOTDOT}

\* <<path, flatten_slashes, result>> as the claim states them.
NamedFlattenings ==
    { << S(<<"d", "o", "g", "/", "c", "a", "t", "/", ".", ".", "/", "b", "i", "r", "d">>), FALSE,
         S(<<"d", "o", "g", "/", "b", "i", "r", "d">>) >>,
      << S(<<".", ".", "/", ".", ".", "/">>), FALSE, <<>> >>,
      << S(<<"a", "/", "/", "/", "/", ".", ".", "/", ".", ".", "/", "b">>), TRUE, S(<<"a", "/", "b">>) >> }

\* C10: flatten_path is the stack algorithm over the '/'-split segments ('.'
\* dropped, '..' removing the last retained segment if any, everything else kept
\* in order), slash runs collapsed after it when flatten_slashes is set; the
\* result has no dot segment, and the three named paths flatten as stated.
C10_FlattenPathIsStackAlgorithm ==
    fp.pc = "done" =>
        /\ fp.out = ReferenceFlatten(fp.path, fp.flatten_slashes)
        /\ ~HasDotSegment(fp.out)
        /\ \A e \in NamedFlattenings :
               (fp.path = e[1] /\ fp.flatten_slashes = e[2]) => fp.out = e[3]

\* 'a////../../b' flattened with flatten_slashes: the '..' segments remove empty
\* segments, and the slashes left are collapsed afterwards.
C10_Witness ==
    /\ fp.pc = "done"
    /\ fp.path = S(<<"a", "/", "/", "/", "/", ".", ".", "/", ".", ".", "/", "b">>)
    /\ fp.flatten_slashes
    /\ fp.out = S(<<"a", "/", "b">>)

----------------------------------------------------------------------------
(* parse.py: split_query and join_query.  A pair is <<key, value>>, value  *)
(* being a text or None.                                                   *)

AMP == S(<<"&">>)

\* The loop of join_query over query_list[i..]: the parts and the cache after it.
\* ok is FALSE when percent-encoding a key or a value raises.
RECURSIVE JoinParts(_, _, _)
JoinParts(c, query_list, i) ==
    IF i > Len(query_list) THEN [ok |-> TRUE, parts |-> <<>>, cache |-> c]
    ELSE With([key \in {percent_encode_query_key(c, query_list[i][1])} |->
             IF ~key.ok THEN [ok |-> FALSE, parts |-> <<>>, cache |-> c]
             ELSE With([value \in {IF query_list[i][2] # None
                                   THEN percent_encode_query_value(key.cache, query_list[i][2])
                                   ELSE [ok |-> TRUE, out |-> <<>>, cache |-> key.cache]} |->
                      IF ~value.ok THEN [ok |-> FALSE, parts |-> <<>>, cache |-> key.cache]
                      ELSE With([rest \in {JoinParts(value.cache, query_list, i + 1)} |->
                               [ok |-> rest.ok,
                                parts |-> <<IF query_list[i][2] # None
                                            THEN key.out \o S(<<"=">>) \o value.out
                                            ELSE key.out>> \o rest.parts,
                                cache |-> rest.cache]])])])

join_query(c, query_list) ==
    With([r \in {JoinParts(c, query_list, 1)} |->
        [ok |-> r.ok, out |-> Join(r.parts, AMP), cache |-> r.cache]])

\* The loop body without "if not delim and keep_blank_values: value = None".
SplitPair_value_never_None(pair, keep_blank_values, decode_escape) ==
    With([p \in {Partition(pair, Ord("="))} |->
    With([name \in {IF decode_escape THEN percent_decode_plus(p[1], TRUE) ELSE [ok |-> TRUE, text |-> p[1]]} |->
    With([decoded \in {IF decode_escape THEN percent_decode_plus(p[3], TRUE) ELSE [ok |-> TRUE, text |-> p[3]]} |->
        [ok |-> name.ok /\ decoded.ok,
         item |-> <<name.text, decoded.text>>,
         appended |-> keep_blank_values \/ Len(decoded.text) > 0]])])])

\* The body of the loop of split_query for one '&'-separated pair:
\* the item, whether it is appended, and whether decoding raised.
SplitPair(pair, keep_blank_values, decode_escape) ==
    With([p \in {Partition(pair, Ord("="))} |->
    With([name \in {IF decode_escape THEN percent_decode_plus(p[1], TRUE) ELSE [ok |-> TRUE, text |-> p[1]]} |->
    With([decoded \in {IF decode_escape THEN percent_decode_plus(p[3], TRUE) ELSE [ok |-> TRUE, text |-> p[3]]} |->
    With([value \in {IF Len(p[2]) = 0 /\ keep_blank_values THEN None ELSE decoded.text} |->
        [ok |-> name.ok /\ decoded.ok,
         item |-> <<name.text, value>>,
         appended |-> keep_blank_values \/ (value # None /\ Len(value) > 0)]])])])])

RECURSIVE SplitItems(_, _, _, _)
SplitItems(pairs, i, keep_blank_values, decode_escape) ==
    IF i > Len(pairs) THEN [ok |-> TRUE, items |-> <<>>]
    ELSE With([r \in {SplitPair(pairs[i], keep_blank_values, decode_escape)} |->
         With([rest \in {SplitItems(pairs, i + 1, keep_blank_values, decode_escape)} |->
             [ok |-> r.ok /\ rest.ok,
              items |-> (IF r.appended THEN <<r.item>> ELSE <<>>) \o rest.items]])])

\* split_query(qs, keep_blank_values, decode_escape) with encoding='utf-8',
\* errors='strict'
split_query(qs, keep_blank_values, decode_escape) ==
    SplitItems(Split(qs, Ord("&")), 1, keep_blank_values, decode_escape)

----------------------------------------------------------------------------
(* split_query(join_query(query_list), keep_blank_values=True) *)

MaxPairs == 2

QueryKeys == { <<>>, S(<<"a">>), S(<<"=">>), S(<<"&", "+">>), S(<<"%", "4", "1">>), <<Ord(" "), 233>> }
QueryValues == { <<>>, S(<<"1">>), S(<<"=", "&">>), S(<<"+", " ">>), S(<<"%", "2", "6">>), <<233>>, None }
QueryPairs == {<<k, v>> : k \in QueryKeys, v \in QueryValues}
QueryLists == SeqsUpTo(QueryPairs, MaxPairs)

InitQuery ==
    /\ cache = <<>>
    /\ info = NoInfo
    /\ reparsed = NoInfo
    /\ op = NoOp
    /\ encCall = NoCall
    /\ rt = NoRoundTrip
    /\ fp = NoFlatten
    /\ fn = NoFn
    /\ \E query_list \in QueryLists :
           qc = [pc |-> "start", query_list |-> query_list, qs |-> <<>>, items |-> <<>>]

\* qs = join_query(query_list)
JoinQueryCall ==
    /\ qc.pc = "start"
    /\ \E r \in {join_query(cache, qc.query_list)} :
           /\ cache' = r.cache
           /\ qc' = IF r.ok THEN [qc EXCEPT !.pc = "joined", !.qs = r.out]
                    ELSE [qc EXCEPT !.pc = "raised"]
    /\ UNCHANGED <<encCall, rt, fp, fn, urlVars>>

\* items = split_query(qs, keep_blank_values=True)
SplitQueryCall ==
    /\ qc.pc = "joined"
    /\ \E r \in {split_query(qc.qs, TRUE, TRUE)} :
           qc' = IF r.ok THEN [qc EXCEPT !.pc = "done", !.items = r.items]
                 ELSE [qc EXCEPT !.pc = "raised"]
    /\ UNCHANGED <<cache, encCall, rt, fp, fn, urlVars>>

NextQuery == JoinQueryCall \/ SplitQueryCall

SpecQuery == InitQuery /\ [][NextQuery]_vars

NoneFree(query_list) == \A i \in 1..Len(query_list) : query_list[i][2] # None

\* C9: for every list of pairs without a None value, the empty list included,
\* split_query(join_query(p), keep_blank_values=True) is p.
C9_SplitInvertsJoin ==
    (qc.pc = "done" /\ NoneFree(qc.query_list)) => qc.items = qc.query_list

\* What the code does keep: the round trip of every list that is not empty.
C9_SplitInvertsJoinNonEmpty ==
    (qc.pc = "done" /\ Len(qc.query_list) > 0) => qc.items = qc.query_list

----------------------------------------------------------------------------
(* parse.py: the URLInfo record and its composite views.  encoding and     *)
(* query_encoding are 'utf-8' and errors is 'strict', the defaults.  A     *)
(* result carries ok and err, the name of the exception raised when ok is  *)
(* FALSE.                                                                  *)

HTTP == S(<<"h", "t", "t", "p">>)
HTTPS == S(<<"h", "t", "t", "p", "s">>)

RELATIVE_SCHEME_DEFAULT_PORTS ==
    (S(<<"f", "t", "p">>) :> 21) @@ (S(<<"g", "o", "p", "h", "e", "r">>) :> 70)
        @@ (HTTP :> 80) @@ (HTTPS :> 443)
        @@ (S(<<"w", "s">>) :> 80) @@ (S(<<"w", "s", "s">>) :> 443)

\* port None and address None
NoPort == -1
NoAddr == [version |-> 0, words |-> <<>>, scope_id |-> None]

\* bool(text) for a text or None
Truthy(text) == text # None /\ Len(text) > 0

\* '{}'.format(value) for a text or None
Str(value) == IF value = None THEN S(<<"N", "o", "n", "e">>) ELSE value

\* URLInfo.__init__
URLInfo(scheme, hostname, port, path) ==
    [scheme |-> scheme, hostname |-> hostname, port |-> port,
     username |-> None, password |-> None, path |-> path,
     query |-> None, fragment |-> None, address |-> NoAddr, raw |-> None]

\* URLInfo.is_ipv6: indexing a hostname of None raises TypeError.
is_ipv6(self) ==
    IF self.address.version = 6 THEN [ok |-> TRUE, err |-> "", value |-> TRUE]
    ELSE IF self.hostname = None THEN [ok |-> FALSE, err |-> "TypeError", value |-> FALSE]
    ELSE [ok |-> TRUE, err |-> "", value |-> Has(self.hostname, Ord(":"))]

\* URLInfo.host (getter): a port of None or 0 is falsy; the table is indexed
\* by the scheme, which raises KeyError for a scheme it does not have.
host(self) ==
    IF ~Truthy(self.hostname) THEN [ok |-> TRUE, err |-> "", out |-> <<>>]
    ELSE With([hostname \in {IF is_ipv6(self).value
                             THEN S(<<"[">>) \o self.hostname \o S(<<"]">>)
                             ELSE self.hostname} |->
             IF self.port # NoPort /\ self.port # 0
             THEN IF self.scheme \notin DOMAIN RELATIVE_SCHEME_DEFAULT_PORTS
                  THEN [ok |-> FALSE, err |-> "KeyError", out |-> <<>>]
                  ELSE IF RELATIVE_SCHEME_DEFAULT_PORTS[self.scheme] # self.port
                  THEN [ok |-> TRUE, err |-> "", out |-> hostname \o S(<<":">>) \o Decimal(self.port)]
                  ELSE [ok |-> TRUE, err |-> "", out |-> hostname]
             ELSE [ok |-> TRUE, err |-> "", out |-> hostname]])

\* URLInfo.userinfo (getter), called with the cache c
userinfo(c, self) ==
    IF Truthy(self.username) \/ Truthy(self.password)
    THEN With([u \in {percent_encode(c, IF Truthy(self.username) THEN self.username ELSE <<>>,
                                     USERNAME_ENCODE_SET)} |->
             IF ~u.ok THEN [ok |-> FALSE, err |-> "UnicodeEncodeError", out |-> <<>>, cache |-> c]
             ELSE With([p \in {percent_encode(u.cache, IF Truthy(self.password) THEN self.password ELSE <<>>,
                                              PASSWORD_ENCODE_SET)} |->
                      IF ~p.ok
                      THEN [ok |-> FALSE, err |-> "UnicodeEncodeError", out |-> <<>>, cache |-> u.cache]
                      ELSE [ok |-> TRUE, err |-> "",
                            out |-> u.out \o (IF Truthy(self.password) THEN S(<<":">>) ELSE <<>>) \o p.out,
                            cache |-> p.cache]])])
    ELSE [ok |-> TRUE, err |-> "", out |-> <<>>, cache |-> c]

\* URLInfo.authority (getter): userinfo is read for the test and again for the
\* text.
authority(c, self) ==
    With([test \in {userinfo(c, self)} |->
        IF ~test.ok THEN test
        ELSE With([h \in {host(self)} |->
                 IF Len(test.out) > 0
                 THEN With([text \in {userinfo(test.cache, self)} |->
                          IF ~h.ok THEN [ok |-> FALSE, err |-> h.err, out |-> <<>>, cache |-> text.cache]
                          ELSE [ok |-> TRUE, err |-> "", out |-> text.out \o S(<<"@">>) \o h.out,
                                cache |-> text.cache]])
                 ELSE [ok |-> h.ok, err |-> h.err, out |-> h.out, cache |-> test.cache]])])

\* URLInfo.origin (getter)
origin(c, self) ==
    With([h \in {host(self)} |->
        IF ~h.ok THEN [ok |-> FALSE, err |-> h.err, out |-> <<>>, cache |-> c]
        ELSE With([a \in {authority(c, self)} |->
                 IF ~a.ok THEN a
                 ELSE [ok |-> TRUE, err |-> "",
                       out |-> Str(self.scheme)
                                  \o (IF Len(h.out) > 0 THEN S(<<":", "/", "/">>) ELSE S(<<":">>))
                                  \o a.out,
                       cache |-> a.cache]])])

\* The getter without the slash it contributes.
resource_as_stored(c, self) ==
    With([path \in {IF Truthy(self.path) THEN self.path ELSE SLASH} |->
    With([q \in {IF Truthy(self.query)
                 THEN percent_encode_plus(c, self.query, QUERY_ENCODE_SET)
                 ELSE [ok |-> TRUE, out |-> <<>>, cache |-> c]} |->
        IF ~q.ok THEN [ok |-> FALSE, err |-> "UnicodeEncodeError", out |-> <<>>, cache |-> c]
        ELSE [ok |-> TRUE, err |-> "",
              out |-> path
                         \o (IF Truthy(self.query) THEN S(<<"?">>) \o q.out ELSE <<>>)
                         \o (IF Truthy(self.fragment) THEN S(<<"#">>) \o self.fragment ELSE <<>>),
              cache |-> q.cache]])])

\* URLInfo.resource (getter), called with the cache c
resource(c, self) ==
    With([path \in {IF Truthy(self.path) THEN self.path ELSE SLASH} |->
    With([q \in {IF Truthy(self.query)
                 THEN percent_encode_plus(c, self.query, QUERY_ENCODE_SET)
                 ELSE [ok |-> TRUE, out |-> <<>>, cache |-> c]} |->
        IF ~q.ok THEN [ok |-> FALSE, err |-> "UnicodeEncodeError", out |-> <<>>, cache |-> c]
        ELSE [ok |-> TRUE, err |-> "",
              out |-> (IF self.scheme \in DOMAIN RELATIVE_SCHEME_DEFAULT_PORTS /\ path[1] # Ord("/")
                       THEN SLASH ELSE <<>>)
                         \o path
                         \o (IF Truthy(self.query) THEN S(<<"?">>) \o q.out ELSE <<>>)
                         \o (IF Truthy(self.fragment) THEN S(<<"#">>) \o self.fragment ELSE <<>>),
              cache |-> q.cache]])])

\* URLInfo.url
url(c, self) ==
    With([o \in {origin(c, self)} |->
        IF ~o.ok THEN o
        ELSE With([r \in {resource(o.cache, self)} |->
                 IF ~r.ok THEN r
                 ELSE [ok |-> TRUE, err |-> "", out |-> o.out \o r.out, cache |-> r.cache]])])

----------------------------------------------------------------------------
(* parse.py: the parse_* class methods *)

NEWLINE == 10

\* The index of the first character of s at or after i that is in chars, 0 when
\* there is none.
FindAny(s, i, chars) ==
    IF \E j \in i..Len(s) : s[j] \in chars
    THEN CHOOSE j \in i..Len(s) : s[j] \in chars /\ \A k \in i..(j - 1) : s[k] \notin chars
    ELSE 0

\* The text from s[i] to the end of its line: what '(.*)' matches at i.
RestOfLine(s, i) ==
    With([n \in {FindAny(s, i, {NEWLINE})} |->
        IF n = 0 THEN From(s, i) ELSE SubSeq(s, i, n - 1)])

\* URLInfo.parse_origin: re.match('(.+?):/{0,2}(.*)', origin).groups().  The
\* scheme ends before the first ':' that is not the first character and has no
\* line break; without a match, .groups() of None raises AttributeError.
parse_origin(new_origin) ==
    With([i \in {FindAny(new_origin, 2, {Ord(":")})} |->
    With([slashes \in {IF i + 2 <= Len(new_origin) /\ new_origin[i + 1] = Ord("/") /\ new_origin[i + 2] = Ord("/")
                       THEN 2
                       ELSE IF i + 1 <= Len(new_origin) /\ new_origin[i + 1] = Ord("/") THEN 1
                       ELSE 0} |->
        IF i = 0 \/ Has(Upto(new_origin, i - 1), NEWLINE)
        THEN [ok |-> FALSE, err |-> "AttributeError", scheme |-> <<>>, authority |-> <<>>]
        ELSE [ok |-> TRUE, err |-> "", scheme |-> Lower(Upto(new_origin, i - 1)),
              authority |-> RestOfLine(new_origin, i + 1 + slashes)]])])

\* URLInfo.parse_authority: <<userinfo, host>>
parse_authority(new_authority) ==
    With([p \in {Partition(new_authority, Ord("@"))} |->
        IF Len(p[2]) = 0 THEN << <<>>, p[1] >> ELSE << p[1], p[3] >>])

\* URLInfo.parse_userinfo: <<username, password>>
parse_userinfo(new_userinfo) ==
    With([p \in {Partition(new_userinfo, Ord(":"))} |-> << p[1], p[3] >>])

\* URLInfo.parse_ipv6_hostname
parse_ipv6_hostname(hostname) ==
    IF ~StartsWith(hostname, S(<<"[">>)) \/ ~EndsWith(hostname, S(<<"]">>))
    THEN [ok |-> FALSE, err |-> "ValueError", hostname |-> <<>>, address |-> NoAddr]
    ELSE With([address \in {IPv6Address(SubSeq(hostname, 2, Len(hostname) - 1))} |->
             IF ~address.ok
             THEN [ok |-> FALSE, err |-> "AddressValueError", hostname |-> <<>>, address |-> NoAddr]
             ELSE [ok |-> TRUE, err |-> "", hostname |-> Compressed(address),
                   address |-> [version |-> 6, words |-> address.words, scope_id |-> address.scope_id]]])

\* URLInfo.parse_hostname: [ok, err, hostname, address]
parse_hostname(hostname) ==
    IF StartsWith(hostname, S(<<"[">>)) THEN parse_ipv6_hostname(hostname)
    ELSE IF Len(hostname) = 0
    THEN [ok |-> FALSE, err |-> "ValueError", hostname |-> <<>>, address |-> NoAddr]
    ELSE With([address \in {parse_ipv4_address(hostname)} |->
             IF address.ok
             THEN [ok |-> TRUE, err |-> "", hostname |-> Compressed(address),
                   address |-> [version |-> 4, words |-> address.words, scope_id |-> None]]
             ELSE With([new_hostname \in {normalize_hostname(hostname)} |->
                      IF ~new_hostname.ok
                      THEN [ok |-> FALSE, err |-> "UnicodeError", hostname |-> <<>>, address |-> NoAddr]
                      ELSE IF \E char \in FORBIDDEN_HOSTNAME_CHARS : Has(new_hostname.out, char)
                      THEN [ok |-> FALSE, err |-> "ValueError", hostname |-> <<>>, address |-> NoAddr]
                      ELSE [ok |-> TRUE, err |-> "", hostname |-> new_hostname.out, address |-> NoAddr]])])

\* URLInfo.parse_host: [ok, err, hostname, address, port]
parse_host(new_host) ==
    IF EndsWith(new_host, S(<<"]">>))
    THEN With([h \in {parse_hostname(new_host)} |->
             [ok |-> h.ok, err |-> h.err, hostname |-> h.hostname, address |-> h.address, port |-> NoPort]])
    ELSE With([p \in {RPartition(new_host, Ord(":"))} |->
         With([port \in {IntParse(p[3], 10)} |->
             IF Len(p[2]) > 0 /\ (~port.ok \/ port.neg \/ port.over \/ port.hi > 0)
             THEN [ok |-> FALSE, err |-> "ValueError", hostname |-> <<>>, address |-> NoAddr,
                   port |-> NoPort]
             ELSE With([h \in {parse_hostname(IF Len(p[2]) > 0 THEN p[1] ELSE p[3])} |->
                      [ok |-> h.ok, err |-> h.err, hostname |-> h.hostname, address |-> h.address,
                       port |-> IF Len(p[2]) > 0 /\ h.ok THEN port.lo ELSE NoPort]])])])

\* URLInfo.parse_resource: re.match(r'(.*?)($|[#?])(.*)', resource).  A line
\* break ends the path only as the last character; anywhere else before the
\* separator there is no match and .group of None raises AttributeError.
parse_resource(new_resource) ==
    With([i \in {FindAny(new_resource, 1, {Ord("#"), Ord("?"), NEWLINE})} |->
        IF i = 0
        THEN [ok |-> TRUE, err |-> "", path |-> new_resource, query |-> <<>>, fragment |-> <<>>]
        ELSE IF new_resource[i] = NEWLINE
        THEN IF i = Len(new_resource)
             THEN [ok |-> TRUE, err |-> "", path |-> Upto(new_resource, i - 1), query |-> <<>>,
                   fragment |-> <<>>]
             ELSE [ok |-> FALSE, err |-> "AttributeError", path |-> <<>>, query |-> <<>>,
                   fragment |-> <<>>]
        ELSE With([remain \in {RestOfLine(new_resource, i + 1)} |->
             With([q \in {Partition(remain, Ord("#"))} |->
                 IF new_resource[i] = Ord("?")
                 THEN [ok |-> TRUE, err |-> "", path |-> Upto(new_resource, i - 1), query |-> q[1],
                       fragment |-> q[3]]
                 ELSE [ok |-> TRUE, err |-> "", path |-> Upto(new_resource, i - 1), query |-> <<>>,
                       fragment |-> remain]])])])

----------------------------------------------------------------------------
(* parse.py: the setters of the views and URLInfo.parse.  A setter returns *)
(* the object as the assignment leaves it, also when it raises.            *)

\* URLInfo.userinfo (setter): both raw parts are stored, then each is decoded.
userinfo_setter(self, new_userinfo) ==
    With([parts \in {parse_userinfo(new_userinfo)} |->
    With([raw \in {[self EXCEPT !.username = parts[1], !.password = parts[2]]} |->
    With([username \in {percent_decode(parts[1], TRUE)} |->
        IF ~username.ok THEN [ok |-> FALSE, err |-> "UnicodeDecodeError", self |-> raw]
        ELSE With([password \in {percent_decode(parts[2], TRUE)} |->
                 IF ~password.ok
                 THEN [ok |-> FALSE, err |-> "UnicodeDecodeError",
                       self |-> [raw EXCEPT !.username = username.text]]
                 ELSE [ok |-> TRUE, err |-> "",
                       self |-> [raw EXCEPT !.username = username.text, !.password = password.text]]])])])])

\* The address is assigned only when the new host is one.
host_setter_keeps_stale_address(self, new_host) ==
    With([r \in {parse_host(new_host)} |->
        IF ~r.ok THEN [ok |-> FALSE, err |-> r.err, self |-> self]
        ELSE [ok |-> TRUE, err |-> "",
              self |-> [self EXCEPT !.hostname = r.hostname,
                                    !.address = IF r.address # NoAddr THEN r.address ELSE self.address,
                                    !.port = IF r.port = NoPort \/ r.port = 0
                                             THEN IF self.scheme \in DOMAIN RELATIVE_SCHEME_DEFAULT_PORTS
                                                  THEN RELATIVE_SCHEME_DEFAULT_PORTS[self.scheme]
                                                  ELSE NoPort
                                             ELSE r.port]]])

\* URLInfo.host (setter): nothing is assigned when parse_host raises; a port
\* that is None or 0 becomes RELATIVE_SCHEME_DEFAULT_PORTS.get(scheme).
host_setter(self, new_host) ==
    With([r \in {parse_host(new_host)} |->
        IF ~r.ok THEN [ok |-> FALSE, err |-> r.err, self |-> self]
        ELSE [ok |-> TRUE, err |-> "",
              self |-> [self EXCEPT !.hostname = r.hostname,
                                    !.address = r.address,
                                    !.port = IF r.port = NoPort \/ r.port = 0
                                             THEN IF self.scheme \in DOMAIN RELATIVE_SCHEME_DEFAULT_PORTS
                                                  THEN RELATIVE_SCHEME_DEFAULT_PORTS[self.scheme]
                                                  ELSE NoPort
                                             ELSE r.port]]])

\* URLInfo.authority (setter): userinfo is assigned, then host.
authority_setter(self, new_authority) ==
    With([parts \in {parse_authority(new_authority)} |->
    With([u \in {userinfo_setter(self, parts[1])} |->
        IF ~u.ok THEN u ELSE host_setter(u.self, parts[2])])])

\* URLInfo.origin (setter): scheme is assigned, then authority.
origin_setter(self, new_origin) ==
    With([r \in {parse_origin(new_origin)} |->
        IF ~r.ok THEN [ok |-> FALSE, err |-> r.err, self |-> self]
        ELSE authority_setter([self EXCEPT !.scheme = r.scheme], r.authority)])

\* URLInfo.resource (setter), called with the cache c: the three raw parts are
\* stored, then the path and the query are normalized.
resource_setter(c, self, new_resource) ==
    With([r \in {parse_resource(new_resource)} |->
        IF ~r.ok THEN [ok |-> FALSE, err |-> r.err, self |-> self, cache |-> c]
        ELSE With([raw \in {[self EXCEPT !.path = r.path, !.query = r.query, !.fragment = r.fragment]} |->
             With([path \in {normalize_path(c, r.path)} |->
                 IF ~path.ok
                 THEN [ok |-> FALSE, err |-> "UnicodeEncodeError", self |-> raw, cache |-> c]
                 ELSE With([query \in {normalize_query(path.cache, r.query)} |->
                          IF ~query.ok
                          THEN [ok |-> FALSE, err |-> "UnicodeEncodeError",
                                self |-> [raw EXCEPT !.path = path.out], cache |-> path.cache]
                          ELSE [ok |-> TRUE, err |-> "",
                                self |-> [raw EXCEPT !.path = path.out, !.query = query.out],
                                cache |-> query.cache]])])])])

\* The text after the slashes that follow the scheme, split where
\* re.match(r'/*(.*?)($|[/?#].*)', remaining) splits it: <<authority, resource>>.
SplitRemaining(remaining) ==
    With([start \in {IF \E j \in 1..Len(remaining) : remaining[j] # Ord("/")
                     THEN CHOOSE j \in 1..Len(remaining) :
                              remaining[j] # Ord("/") /\ \A k \in 1..(j - 1) : remaining[k] = Ord("/")
                     ELSE Len(remaining) + 1} |->
    With([stop \in {FindAny(remaining, start, {Ord("/"), Ord("?"), Ord("#")})} |->
        IF stop = 0 THEN << From(remaining, start), <<>> >>
        ELSE << SubSeq(remaining, start, stop - 1), From(remaining, stop) >>])])

\* URLInfo.parse(url, default_scheme), called with the cache c:
\* [ok, err, info, cache].  default_scheme is a text or None.
parse(c, url_text, default_scheme) ==
    With([stripped \in {Strip(url_text)} |->
    With([p \in {Partition(stripped, Ord(":"))} |->
    With([defaulted \in {Len(p[2]) = 0 /\ Truthy(default_scheme)} |->
    With([scheme1 \in {IF defaulted THEN default_scheme ELSE Lower(p[1])} |->
    With([remaining1 \in {IF defaulted THEN stripped ELSE p[3]} |->
    With([reclassified \in {(Truthy(default_scheme) /\ Has(scheme1, Ord(".")))
                                \/ scheme1 = S(<<"l", "o", "c", "a", "l", "h", "o", "s", "t">>)} |->
    With([scheme \in {IF reclassified THEN default_scheme ELSE scheme1} |->
    With([remaining \in {IF reclassified THEN Str(scheme1) \o S(<<":">>) \o remaining1 ELSE remaining1} |->
    With([new \in {URLInfo(scheme, None, NoPort, None)} |->
        IF \/ \E i \in 1..Len(stripped) : stripped[i] \in C0_CONTROL_SET
           \/ Len(p[1]) = 0
           \/ (Len(p[2]) = 0 /\ ~Truthy(default_scheme))
        THEN [ok |-> FALSE, err |-> "ValueError", info |-> NoInfo, cache |-> c]
        ELSE IF scheme \notin DOMAIN RELATIVE_SCHEME_DEFAULT_PORTS
        THEN [ok |-> TRUE, err |-> "",
              info |-> [new EXCEPT !.raw = stripped, !.path = remaining], cache |-> c]
        ELSE With([split \in {SplitRemaining(remaining)} |->
             With([a \in {authority_setter(new, split[1])} |->
                 IF ~a.ok THEN [ok |-> FALSE, err |-> a.err, info |-> NoInfo, cache |-> c]
                 ELSE With([r \in {resource_setter(c, a.self, split[2])} |->
                          IF ~r.ok THEN [ok |-> FALSE, err |-> r.err, info |-> NoInfo, cache |-> r.cache]
                          ELSE [ok |-> TRUE, err |-> "", info |-> r.self, cache |-> r.cache]])])])])])])])])])])])])

----------------------------------------------------------------------------
(* URLInfo.parse(url, default_scheme), the url of the result, and the parse *)
(* of that url                                                              *)

\* The inputs are a scheme part, slashes and the rest, in every combination,
\* and texts with whitespace or control characters around or inside.
ParseSchemes ==
    { S(<<"h", "t", "t", "p", ":">>), S(<<"H", "T", "T", "P", ":">>), S(<<"w", "s", ":">>),
      S(<<"m", "a", "i", "l", "t", "o", ":">>), <<>>, S(<<"a", ".", "b", ":">>),
      S(<<"A", ".", "B", ":">>), S(<<"l", "o", "c", "a", "l", "h", "o", "s", "t", ":">>) }

ParseSlashes ==
    { <<>>, S(<<"/", "/">>) }

ParseRests ==
    { <<>>, S(<<"h">>), S(<<"h", "/">>), S(<<"h", ":", "8", "1", "/", "a", "?", "b", "#", "c">>),
      S(<<"h", ":", "0">>), S(<<"u", ":", "p", "@", "h", "/">>),
      S(<<"%", "2", "5", "2", "5", "@", "h", "/">>), S(<<"a", "@", "b", "@", "h">>),
      S(<<"[", ":", ":", "1", "]", ":", "8", "1">>), S(<<"1">>),
      S(<<"h", "/", "a", "/", ".", ".", "/", "b">>), S(<<"h", "?", "q">>), S(<<"x">>), S(<<"8", "0">>),
      S(<<"h", ":", "6", "5", "5", "3", "6">>), S(<<"H", ".", "C", "o", "m">>),
      S(<<"h", "/", "a", " ", "b">>), S(<<"%", "F", "F", "@", "h">>) }

ParseSpecials ==
    { S(<<" ", "h", "t", "t", "p", ":", "/", "/", "h", " ">>),
      <<1>> \o S(<<"h", "t", "t", "p", ":", "/", "/", "h">>),
      S(<<"h", "t">>) \o <<10>> \o S(<<"t", "p", ":", "/", "/", "h">>),
      <<31>> \o S(<<"w", "s", ":", "/", "/", "h">>), S(<<":", "x">>), S(<<" ">>) }

ParseInputs ==
    {a \o b \o c : a \in ParseSchemes, b \in ParseSlashes, c \in ParseRests} \cup ParseSpecials

\* default_scheme: the default, None, the empty text, upper case, and a scheme
\* outside RELATIVE_SCHEME_DEFAULT_PORTS
DefaultSchemes == {HTTP, None, <<>>, S(<<"H", "T", "T", "P">>), S(<<"m", "a", "i", "l", "t", "o">>)}

InitParse ==
    /\ cache = <<>>
    /\ encCall = NoCall
    /\ rt = NoRoundTrip
    /\ fp = NoFlatten
    /\ qc = NoQuery
    /\ fn = NoFn
    /\ info = NoInfo
    /\ reparsed = NoInfo
    /\ \E u \in ParseInputs, d \in DefaultSchemes :
           op = [pc |-> "start", url |-> u, default_scheme |-> d, err |-> "", rendered |-> <<>>]

\* info = URLInfo.parse(url, default_scheme)
ParseCall ==
    /\ op.pc = "start"
    /\ \E r \in {parse(cache, op.url, op.default_scheme)} :
           /\ cache' = r.cache
           /\ info' = r.info
           /\ op' = [op EXCEPT !.pc = IF r.ok THEN "parsed" ELSE "raised", !.err = r.err]
    /\ UNCHANGED <<encCall, rt, fp, qc, fn, reparsed>>

\* rendered = info.url
RenderUrl ==
    /\ op.pc = "parsed"
    /\ \E r \in {url(cache, info)} :
           /\ cache' = r.cache
           /\ op' = [op EXCEPT !.pc = IF r.ok THEN "rendered" ELSE "unrendered",
                               !.err = r.err, !.rendered = r.out]
    /\ UNCHANGED <<encCall, rt, fp, qc, fn, info, reparsed>>

\* reparsed = URLInfo.parse(rendered, default_scheme)
Reparse ==
    /\ op.pc = "rendered"
    /\ \E r \in {parse(cache, op.rendered, op.default_scheme)} :
           /\ cache' = r.cache
           /\ reparsed' = r.info
           /\ op' = [op EXCEPT !.pc = IF r.ok THEN "reparsed" ELSE "reraised", !.err = r.err]
    /\ UNCHANGED <<encCall, rt, fp, qc, fn, info>>

NextParse == ParseCall \/ RenderUrl \/ Reparse

SpecParse == InitParse /\ [][NextParse]_vars

\* parse returned info.
Parsed == op.pc \in {"parsed", "rendered", "unrendered", "reparsed", "reraised"}

\* C1: for every input that URLInfo.parse accepts with the default
\* default_scheme, the url of the result parses again, and the url of that
\* second result is the url of the first.
C1_RoundTrip ==
    (Parsed /\ op.default_scheme = HTTP) =>
        /\ op.pc \notin {"unrendered", "reraised"}
        /\ op.pc = "reparsed" => (url(cache, reparsed).ok /\ url(cache, reparsed).out = op.rendered)

\* C2: every record URLInfo.parse returns, whatever the input and the
\* default_scheme, has a scheme that is not None, not empty and in lower case.
C2_SchemePresentLowercase ==
    Parsed => (info.scheme # None /\ Len(info.scheme) > 0 /\ info.scheme = Lower(info.scheme))

\* The text after the first ':' of the trimmed input.
AfterFirstColon(url_text) == Partition(Strip(url_text), Ord(":"))[3]

\* C4: when URLInfo.parse resolves a scheme outside RELATIVE_SCHEME_DEFAULT_PORTS
\* for an input with a ':', the record has no hostname, port, username or
\* password, its path is the text after the first ':' of the trimmed input, and
\* its url is the scheme, ':' and that text.
C4_NonRelativeIsOpaque ==
    (Parsed /\ info.scheme \notin DOMAIN RELATIVE_SCHEME_DEFAULT_PORTS /\ Has(op.url, Ord(":"))) =>
        /\ info.hostname = None /\ info.port = NoPort
        /\ info.username = None /\ info.password = None
        /\ info.path = AfterFirstColon(op.url)
        /\ url(cache, info).ok
        /\ url(cache, info).out = Str(info.scheme) \o S(<<":">>) \o AfterFirstColon(op.url)

----------------------------------------------------------------------------
(* A URLInfo object made by the constructor or by URLInfo.parse, and        *)
(* assignments to its views                                                 *)

MaxAssignments == 2

ConstructSchemes ==
    { S(<<"h", "t", "t", "p">>), S(<<"h", "t", "t", "p", "s">>), S(<<"x">>) }

ConstructHostnames ==
    { None, S(<<"h">>), S(<<":", ":", "1">>) }

ConstructPorts == {NoPort, 0, 80, 81}

ConstructPaths ==
    { None, <<>>, S(<<"a">>), S(<<"/", "a">>) }

ViewUrls ==
    { S(<<"h", "t", "t", "p", ":", "/", "/", "h", "/">>),
      S(<<"h", "t", "t", "p", "s", ":", "/", "/", "u", ":", "p", "@", "1", ".", "2", ".", "3", ".", "4", ":", "8", "1", "/", "a", "?", "b", "#", "c">>),
      S(<<"h", "t", "t", "p", ":", "/", "/", "[", ":", ":", "1", "]", "?", "q">>),
      S(<<"w", "s", ":", "/", "/", "H", ".", "C", "o", "m", ":", "0", "/", "a", " ", "b">>) }

OriginTexts ==
    { S(<<"h", "t", "t", "p", ":", "/", "/", "h">>), S(<<"x", ":", "/", "/", "h", ":", "5">>),
      S(<<"h", "t", "t", "p", "s", ":", "/", "/", "[", ":", ":", "1", "]", ":", "4", "4", "3">>),
      S(<<"e", "x", "a", "m", "p", "l", "e", ".", "c", "o", "m">>),
      S(<<"w", "s", ":", "/", "/", "%", "F", "F", "@", "h">>),
      S(<<"h", "t", "t", "p", ":", "/", "/", "h", ":", "x">>) }

AuthorityTexts ==
    { S(<<"h">>), S(<<"u", ":", "p", "@", "h", ":", "8", "1">>), S(<<"a", "@", "b", "@", "h">>),
      S(<<"@", "[", ":", ":", "1", "]">>), S(<<"1">>) }

UserinfoTexts ==
    { <<>>, S(<<"u", ":", "p">>), S(<<"%", "2", "5", "2", "5">>), S(<<"%", "F", "F", ":", "p">>) }

HostTexts ==
    { S(<<"h">>), S(<<"H", ".", "C", "o", "m", ":", "8", "1">>), S(<<"h", ":", "0">>),
      S(<<"1", ".", "2", ".", "3", ".", "4">>),
      S(<<"[", "0", ":", "0", ":", "0", ":", "0", ":", "0", ":", "0", ":", "0", ":", "1", "]", ":", "8", "1">>),
      S(<<"0", "x", "1", "0">>), <<>>, S(<<"h", ":", "6", "5", "5", "3", "6">>) }

ResourceTexts ==
    { <<>>, S(<<"/">>), S(<<"a", "?", "b">>), S(<<"/", "a", "?", "b", "#", "c">>), S(<<"#", "c">>),
      S(<<"/", "a", "/", ".", ".", "/", "b", " ", "c">>), S(<<"a">>) \o <<10>> \o S(<<"b">>) }

\* The text URLInfo.parse assigns to the host view for a url that names a
\* scheme of RELATIVE_SCHEME_DEFAULT_PORTS.
ParsedHostText(url_text) ==
    parse_authority(SplitRemaining(Partition(Strip(url_text), Ord(":"))[3])[1])[2]

InitViews ==
    /\ cache = <<>>
    /\ encCall = NoCall
    /\ rt = NoRoundTrip
    /\ fp = NoFlatten
    /\ qc = NoQuery
    /\ fn = NoFn
    /\ info = NoInfo
    /\ reparsed = NoInfo
    /\ op = [pc |-> "new", name |-> "", err |-> "", n |-> 0, last_host |-> None, had_address |-> FALSE]

\* info = URLInfo(scheme, hostname, port, path)
Construct ==
    /\ op.pc = "new"
    /\ \E scheme \in ConstructSchemes, hostname \in ConstructHostnames,
          port \in ConstructPorts, path \in ConstructPaths :
           info' = URLInfo(scheme, hostname, port, path)
    /\ op' = [op EXCEPT !.pc = "made", !.name = "__init__"]
    /\ UNCHANGED <<cache, encCall, rt, fp, qc, fn, reparsed>>

\* info = URLInfo.parse(url)
ParseNew ==
    /\ op.pc = "new"
    /\ \E u \in ViewUrls :
           \E r \in {parse(cache, u, HTTP)} :
               /\ r.ok
               /\ cache' = r.cache
               /\ info' = r.info
               /\ op' = [op EXCEPT !.pc = "made", !.name = "parse", !.last_host = ParsedHostText(u)]
    /\ UNCHANGED <<encCall, rt, fp, qc, fn, reparsed>>

\* op after the assignment r to the view name; host is the host text that the
\* assignment carried, None when it carried none.
Assigned(name, r, host_text) ==
    [op EXCEPT !.name = name, !.err = r.err, !.n = op.n + 1,
               !.last_host = IF r.ok /\ host_text # None THEN host_text ELSE op.last_host,
               !.had_address = info.address # NoAddr]

CanAssign == op.pc = "made" /\ op.n < MaxAssignments

\* info.origin = new_origin
SetOrigin ==
    /\ CanAssign
    /\ \E new_origin \in OriginTexts :
           \E r \in {origin_setter(info, new_origin)}, parsed \in {parse_origin(new_origin)} :
               /\ info' = r.self
               /\ op' = Assigned("origin", r,
                                 IF parsed.ok THEN parse_authority(parsed.authority)[2] ELSE None)
    /\ UNCHANGED <<cache, encCall, rt, fp, qc, fn, reparsed>>

\* info.authority = new_authority
SetAuthority ==
    /\ CanAssign
    /\ \E new_authority \in AuthorityTexts :
           \E r \in {authority_setter(info, new_authority)} :
               /\ info' = r.self
               /\ op' = Assigned("authority", r, parse_authority(new_authority)[2])
    /\ UNCHANGED <<cache, encCall, rt, fp, qc, fn, reparsed>>

\* info.userinfo = new_userinfo
SetUserinfo ==
    /\ CanAssign
    /\ \E new_userinfo \in UserinfoTexts :
           \E r \in {userinfo_setter(info, new_userinfo)} :
               /\ info' = r.self
               /\ op' = Assigned("userinfo", r, None)
    /\ UNCHANGED <<cache, encCall, rt, fp, qc, fn, reparsed>>

\* info.host = new_host
SetHost ==
    /\ CanAssign
    /\ \E new_host \in HostTexts :
           \E r \in {host_setter(info, new_host)} :
               /\ info' = r.self
               /\ op' = Assigned("host", r, new_host)
    /\ UNCHANGED <<cache, encCall, rt, fp, qc, fn, reparsed>>

\* info.resource = new_resource
SetResource ==
    /\ CanAssign
    /\ \E new_resource \in ResourceTexts :
           \E r \in {resource_setter(cache, info, new_resource)} :
               /\ info' = r.self
               /\ cache' = r.cache
               /\ op' = Assigned("resource", r, None)
    /\ UNCHANGED <<encCall, rt, fp, qc, fn, reparsed>>

NextViews ==
    \/ Construct
    \/ ParseNew
    \/ SetOrigin
    \/ SetAuthority
    \/ SetUserinfo
    \/ SetHost
    \/ SetResource

SpecViews == InitViews /\ [][NextViews]_vars

Made == op.pc = "made"

\* The default port of a scheme, NoPort for a scheme that has none.
DefaultPortOf(scheme) ==
    IF scheme \in DOMAIN RELATIVE_SCHEME_DEFAULT_PORTS THEN RELATIVE_SCHEME_DEFAULT_PORTS[scheme] ELSE NoPort

\* The hostname as a host shows it: an IPv6 address in brackets.
ShownHostname(self) ==
    IF self.address.version = 6 \/ Has(self.hostname, Ord(":"))
    THEN S(<<"[">>) \o self.hostname \o S(<<"]">>)
    ELSE self.hostname

\* C3: for every record with a hostname, reading host does not fail, and the
\* host is the hostname followed by ':' and the port exactly when the record has
\* a port that differs from the default port of its scheme, port 0 included.
C3_PortShownIffNotDefault ==
    (Made /\ Truthy(info.hostname)) =>
        /\ host(info).ok
        /\ host(info).out =
               IF info.port # NoPort /\ info.port # DefaultPortOf(info.scheme)
               THEN ShownHostname(info) \o S(<<":">>) \o Decimal(info.port)
               ELSE ShownHostname(info)

\* The stored path with the slash that rendering owes it.
SlashedPath(self) ==
    IF ~Truthy(self.path) THEN SLASH
    ELSE IF self.path[1] = Ord("/") THEN self.path
    ELSE SLASH \o self.path

\* C5: for every record with a scheme of RELATIVE_SCHEME_DEFAULT_PORTS the
\* resource starts with '/': one slash stands for a path that is absent or
\* empty and one is put before a path that does not start with one, so that no
\* second slash follows it; after the path comes a '?' part only for a query
\* that is not empty and a '#' part only for a fragment that is not empty.
C5_ResourceStartsWithOneSlash ==
    (Made /\ info.scheme \in DOMAIN RELATIVE_SCHEME_DEFAULT_PORTS) =>
        LET r == resource(cache, info)
            rest == From(r.out, Len(SlashedPath(info)) + 1)
        IN /\ r.ok
           /\ StartsWith(r.out, SlashedPath(info))
           /\ r.out[1] = Ord("/")
           /\ (~Truthy(info.path) \/ info.path[1] # Ord("/")) => (Len(r.out) = 1 \/ r.out[2] # Ord("/"))
           /\ (~Truthy(info.query) /\ ~Truthy(info.fragment)) => rest = <<>>
           /\ (~Truthy(info.query) /\ Truthy(info.fragment)) => rest = S(<<"#">>) \o info.fragment
           /\ (Truthy(info.query) /\ ~Truthy(info.fragment)) =>
                  (Len(rest) > 1 /\ rest[1] = Ord("?") /\ ~Has(rest, Ord("#")))
           /\ (Truthy(info.query) /\ Truthy(info.fragment)) =>
                  (rest[1] = Ord("?") /\ EndsWith(rest, S(<<"#">>) \o info.fragment))

\* A path without its slash and a query, assigned through the resource view
\* and rendered with the slash before the path and the query after '?'.
C5_Witness ==
    /\ Made /\ op.name = "resource" /\ op.err = ""
    /\ info.scheme \in DOMAIN RELATIVE_SCHEME_DEFAULT_PORTS
    /\ info.path = S(<<"a">>) /\ info.query = S(<<"b">>) /\ info.fragment = <<>>
    /\ resource(cache, info).out = S(<<"/", "a", "?", "b">>)

\* A host text that names a domain: letters, digits, '-' and '.' with a last
\* label that starts with a letter, and an optional ':port' after it.
IsDomainHost(host_text) ==
    LET p == RPartition(host_text, Ord(":"))
        name == IF Len(p[2]) > 0 THEN p[1] ELSE host_text
        labels == Split(name, Ord("."))
        last == IF Len(labels) > 1 /\ Len(labels[Len(labels)]) = 0
                THEN labels[Len(labels) - 1]
                ELSE labels[Len(labels)]
    IN /\ Len(name) > 0
       /\ \A i \in 1..Len(name) :
              IsUpper(name[i]) \/ IsLower(name[i]) \/ IsDigit(name[i]) \/ name[i] \in {Ord("-"), Ord(".")}
       /\ Len(last) > 0
       /\ IsUpper(last[1]) \/ IsLower(last[1])

\* C6: after URLInfo.parse and after assignments to origin, authority or host,
\* an address that is set has the hostname as its compressed text (an IPv6
\* address without brackets), and after the assignment of a host that names a
\* domain the address is absent.
C6_HostnameMatchesAddress ==
    Made =>
        /\ info.address # NoAddr =>
               /\ info.hostname = Compressed(info.address)
               /\ ~Has(info.hostname, Ord("["))
               /\ parse_hostname(IF info.address.version = 6
                                 THEN S(<<"[">>) \o info.hostname \o S(<<"]">>)
                                 ELSE info.hostname).address = info.address
        /\ (op.last_host # None /\ IsDomainHost(op.last_host)) => info.address = NoAddr

\* The host of a domain assigned to a record that had an address.
C6_Witness ==
    /\ Made /\ op.name = "host" /\ op.err = "" /\ op.had_address
    /\ op.last_host = S(<<"H", ".", "C", "o", "m", ":", "8", "1">>)
    /\ info.hostname = S(<<"h", ".", "c", "o", "m">>)
    /\ info.address = NoAddr
    /\ info.port = 81

----------------------------------------------------------------------------
(* is_subdir(parent_path, child_path, wildcards)                            *)

\* Everything that a call of one function leaves as the module left it.
OnlyFn ==
    /\ cache = <<>>
    /\ info = NoInfo
    /\ reparsed = NoInfo
    /\ op = NoOp
    /\ encCall = NoCall
    /\ rt = NoRoundTrip
    /\ fp = NoFlatten
    /\ qc = NoQuery

\* posixpath.dirname: the text up to the last '/', without its trailing
\* slashes unless it is made of slashes only.
dirname(p) ==
    LET head == Upto(p, RFind(p, Ord("/")))
    IN IF \E i \in 1..Len(head) : head[i] # Ord("/")
       THEN Upto(head, CHOOSE i \in 1..Len(head) :
                           head[i] # Ord("/") /\ \A j \in (i + 1)..Len(head) : head[j] = Ord("/"))
       ELSE head

\* fnmatch.fnmatchcase(name, pat) for patterns of '*', '?' and literal
\* characters: the whole of name from i on matches pat from j on.
RECURSIVE FnMatchFrom(_, _, _, _)
FnMatchFrom(name, i, pat, j) ==
    IF j > Len(pat) THEN i > Len(name)
    ELSE IF pat[j] = Ord("*")
    THEN \E k \in i..(Len(name) + 1) : FnMatchFrom(name, k, pat, j + 1)
    ELSE /\ i <= Len(name)
         /\ pat[j] = Ord("?") \/ pat[j] = name[i]
         /\ FnMatchFrom(name, i + 1, pat, j + 1)

fnmatchcase(name, pat) == FnMatchFrom(name, 1, pat, 1)

\* is_subdir: the parts of the two dirnames are compared pairwise, as zip
\* pairs them, once the parent is known to have no more parts than the child.
is_subdir(parent_path, child_path, wildcards) ==
    With([child_dir_parts \in {Split(dirname(child_path), Ord("/"))} |->
    With([parent_dir_parts \in {Split(dirname(parent_path), Ord("/"))} |->
        IF Len(parent_dir_parts) > Len(child_dir_parts) THEN FALSE
        ELSE IF wildcards
        THEN \A k \in 1..Len(parent_dir_parts) : fnmatchcase(child_dir_parts[k], parent_dir_parts[k])
        ELSE \A k \in 1..Len(parent_dir_parts) : parent_dir_parts[k] = child_dir_parts[k]])])

MaxSubdirLen == 4

\* Paths of '/', a name and a wildcard.
SubdirPaths == SeqsUpTo({Ord("/"), Ord("a"), Ord("?")}, MaxSubdirLen)

InitSubdir ==
    /\ OnlyFn
    /\ \E parent_path \in SubdirPaths, child_path \in SubdirPaths, wildcards \in BOOLEAN :
           fn = [pc |-> "start", parent_path |-> parent_path, child_path |-> child_path,
                 wildcards |-> wildcards, out |-> FALSE]

\* out = is_subdir(parent_path, child_path, wildcards)
IsSubdirCall ==
    /\ fn.pc = "start"
    /\ fn' = [fn EXCEPT !.pc = "done", !.out = is_subdir(fn.parent_path, fn.child_path, fn.wildcards)]
    /\ UNCHANGED <<cache, encCall, rt, fp, qc, urlVars>>

NextSubdir == IsSubdirCall

SpecSubdir == InitSubdir /\ [][NextSubdir]_vars

\* All the '/'-separated segments of a path but the last.
DirSegments(path) ==
    LET parts == Split(path, Ord("/")) IN Upto(parts, Len(parts) - 1)

IsPrefixOf(short, long) == Len(short) <= Len(long) /\ Upto(long, Len(short)) = short

\* C11: without wildcards, is_subdir(parent, child) is true exactly when the
\* segments of parent but the last are a prefix of the segments of child but
\* the last, so that a parent whose directory is the root is a parent of every
\* absolute child.
C11_SubdirIsSegmentPrefix ==
    (fn.pc = "done" /\ ~fn.wildcards) =>
        (fn.out <=> IsPrefixOf(DirSegments(fn.parent_path), DirSegments(fn.child_path)))

----------------------------------------------------------------------------
(* schemes_similar(scheme1, scheme2)                                        *)

\* schemes_similar: equal as given, or both http or https once in lower case.
schemes_similar(scheme1, scheme2) ==
    IF scheme1 = scheme2 THEN TRUE
    ELSE IF Lower(scheme1) \in {HTTP, HTTPS} /\ Lower(scheme2) \in {HTTP, HTTPS} THEN TRUE
    ELSE FALSE

\* Schemes in lower, upper and mixed case, of the http family and outside it.
SchemeTexts ==
    { HTTP, HTTPS, S(<<"H", "T", "T", "P">>), S(<<"H", "t", "t", "p", "s">>), S(<<"f", "t", "p">>),
      S(<<"F", "T", "P">>), S(<<"F", "t", "p">>), S(<<"w", "s">>), S(<<"W", "S">>), S(<<"w", "s", "s">>),
      S(<<"h", "t", "t", "p", "x">>), <<>> }

InitSchemes ==
    /\ OnlyFn
    /\ \E scheme1 \in SchemeTexts, scheme2 \in SchemeTexts :
           fn = [pc |-> "start", scheme1 |-> scheme1, scheme2 |-> scheme2, out |-> FALSE]

\* out = schemes_similar(scheme1, scheme2)
SchemesSimilarCall ==
    /\ fn.pc = "start"
    /\ fn' = [fn EXCEPT !.pc = "done", !.out = schemes_similar(fn.scheme1, fn.scheme2)]
    /\ UNCHANGED <<cache, encCall, rt, fp, qc, urlVars>>

NextSchemes == SchemesSimilarCall

SpecSchemes == InitSchemes /\ [][NextSchemes]_vars

\* C12: schemes_similar(a, b) is true if and only if a and b are equal when
\* letter case is ignored or both are, in any letter case, http or https.
C12_SimilarIffEqualIgnoringCase ==
    fn.pc = "done" =>
        (fn.out <=> \/ Lower(fn.scheme1) = Lower(fn.scheme2)
                    \/ (Lower(fn.scheme1) \in {HTTP, HTTPS} /\ Lower(fn.scheme2) \in {HTTP, HTTPS}))

----------------------------------------------------------------------------
(* URLInfo.parse of texts with a control character                          *)

\* Texts of a relative scheme, of another scheme and without a scheme.
ControlBases ==
    { S(<<"h", "t", "t", "p", ":", "/", "/", "h", "/", "a">>), S(<<"m", "a", "i", "l", "t", "o", ":", "x">>),
      S(<<"h">>), <<>> }

\* Every text of ControlBases, as it is and with one character of 0x00..0x1F
\* before it, after it or between two of its characters.
ControlInputs ==
    ControlBases \cup
        UNION {{Upto(b, k) \o <<c>> \o From(b, k + 1) : k \in 0..Len(b), c \in 0..31} : b \in ControlBases}

InitControl ==
    /\ cache = <<>>
    /\ encCall = NoCall
    /\ rt = NoRoundTrip
    /\ fp = NoFlatten
    /\ qc = NoQuery
    /\ fn = NoFn
    /\ info = NoInfo
    /\ reparsed = NoInfo
    /\ \E u \in ControlInputs, d \in DefaultSchemes :
           op = [pc |-> "start", url |-> u, default_scheme |-> d, err |-> "", rendered |-> <<>>]

NextControl == ParseCall

SpecControl == InitControl /\ [][NextControl]_vars

\* The text has a character in the range 0x00 to 0x1F.
HasControl(text) == \E i \in 1..Len(text) : text[i] >= 0 /\ text[i] <= 31

\* C13: URLInfo.parse raises and returns no record for every input whose
\* trimmed form has a character in the range 0x00 to 0x1F, whatever the scheme
\* and wherever the character is.
C13_ControlCharactersRejected ==
    (op.pc # "start" /\ HasControl(Strip(op.url))) =>
        (op.pc = "raised" /\ op.err = "ValueError" /\ info = NoInfo)

\* NUL inside the text of a scheme that is not relative, rejected.
C13_Witness ==
    /\ op.pc = "raised"
    /\ op.url = S(<<"m", "a", "i", "l", "t", "o", ":">>) \o <<0>> \o S(<<"x">>)
    /\ info = NoInfo

----------------------------------------------------------------------------
(* URLInfo.parse of texts without ':' and of texts that start with ':'      *)

LOCALHOST == S(<<"l", "o", "c", "a", "l", "h", "o", "s", "t">>)

\* Texts without ':', the empty text, and texts with nothing before the ':'.
NoColonInputs ==
    { S(<<"x">>), S(<<"h", "/", "a">>), S(<<"H", ".", "C", "o", "m", "/", "p", "?", "q">>), LOCALHOST,
      S(<<" ", "h", " ">>), S(<<"/", "/", "h", "/", "a", "#", "f">>), S(<<"u", "@", "h">>), S(<<"h", "/", "a", " ", "b">>),
      S(<<"1", ".", "2", ".", "3", ".", "4">>), <<>>, S(<<" ">>), S(<<":">>), S(<<":", "3", "8", "/", "3">>),
      S(<<" ", ":", "x">>) }

\* default_scheme: relative, absent, empty, not relative, and with the looks
\* of a host name.
NoColonDefaults ==
    { HTTP, S(<<"w", "s">>), None, <<>>, S(<<"m", "a", "i", "l", "t", "o">>), S(<<"H", "T", "T", "P">>), LOCALHOST,
      S(<<"a", ".", "b">>) }

InitNoColon ==
    /\ cache = <<>>
    /\ encCall = NoCall
    /\ rt = NoRoundTrip
    /\ fp = NoFlatten
    /\ qc = NoQuery
    /\ fn = NoFn
    /\ info = NoInfo
    /\ reparsed = NoInfo
    /\ \E u \in NoColonInputs, d \in NoColonDefaults :
           op = [pc |-> "start", url |-> u, default_scheme |-> d, err |-> "", rendered |-> <<>>]

NextNoColon == ParseCall

SpecNoColon == InitNoColon /\ [][NextNoColon]_vars

\* The record of a remainder under a scheme: for a relative scheme the
\* authority and the resource of the remainder assigned to a new record, for
\* another scheme the remainder as the path of the trimmed text.
UnderScheme(scheme, remaining, trimmed) ==
    IF scheme \notin DOMAIN RELATIVE_SCHEME_DEFAULT_PORTS
    THEN [ok |-> TRUE, info |-> [URLInfo(scheme, None, NoPort, None) EXCEPT !.raw = trimmed, !.path = remaining]]
    ELSE With([split \in {SplitRemaining(remaining)} |->
         With([a \in {authority_setter(URLInfo(scheme, None, NoPort, None), split[1])} |->
             IF ~a.ok THEN [ok |-> FALSE, info |-> NoInfo]
             ELSE With([r \in {resource_setter(<<>>, a.self, split[2])} |->
                      [ok |-> r.ok, info |-> IF r.ok THEN r.self ELSE NoInfo]])])])

\* C14: for a trimmed input without ':', URLInfo.parse with a default_scheme
\* returns the record of the whole input as the remainder under
\* default_scheme and without a default_scheme it raises; for an empty input
\* and for an input with nothing before its first ':' it raises.
C14_NoColonUsesDefaultScheme ==
    op.pc # "start" =>
        With([t \in {Strip(op.url)} |->
            /\ (t = <<>> \/ Partition(t, Ord(":"))[1] = <<>>) => op.pc = "raised"
            /\ (t # <<>> /\ ~Has(t, Ord(":"))) =>
                   IF Truthy(op.default_scheme)
                   THEN With([expected \in {UnderScheme(op.default_scheme, t, t)} |->
                            /\ op.pc = "parsed" <=> expected.ok
                            /\ info = expected.info])
                   ELSE op.pc = "raised"])

----------------------------------------------------------------------------
(* URLInfo.parse of a text whose scheme is taken for a host, and of the     *)
(* same text after the default scheme                                       *)

\* Texts 'H:R' whose H has a '.' or is localhost.
NakedInputs ==
    { S(<<"e", ".", "c", "/", "A", ":", "B">>), S(<<"e", ".", "c", ":", "8", "0", "8", "0", "/", "A", ":", "B">>),
      S(<<"E", ".", "C", ":", "8", "1">>), LOCALHOST \o S(<<":", "8", "0", "/", "x">>),
      LOCALHOST \o S(<<":">>), S(<<"a", ".", "b", ":">>), S(<<"a", ".", "b", "/", "?", "Q", ":", "r">>),
      S(<<"h", ".", "x", "/", "a", "/", ".", ".", "/", "B", ":", "c", "?", "D", "#", "E">>),
      S(<<"u", "@", "h", ".", "x", ":", "8", "1", "/", "p">>), S(<<"U", "@", "h", ".", "x", ":", "8", "1">>),
      S(<<"h", ".", "x", "#", "F", ":", "g">>), S(<<"1", ".", "2", ".", "3", ".", "4", ":", "8", "0">>),
      S(<<"h", ".", "x", ":", "p">>), S(<<"e", ".", "c", ":", "8", "0", "/", "a", "?", "b">>) }

NakedDefaults == {HTTP, HTTPS, S(<<"f", "t", "p">>)}

InitNaked ==
    /\ cache = <<>>
    /\ encCall = NoCall
    /\ rt = NoRoundTrip
    /\ fp = NoFlatten
    /\ qc = NoQuery
    /\ fn = NoFn
    /\ info = NoInfo
    /\ reparsed = NoInfo
    /\ \E u \in NakedInputs, d \in NakedDefaults :
           op = [pc |-> "start", url |-> u, default_scheme |-> d, err |-> "", rendered |-> <<>>]

\* reparsed = URLInfo.parse(default_scheme + '://' + url)
ParseAfterScheme ==
    /\ op.pc \in {"parsed", "raised"}
    /\ \E r \in {parse(cache, op.default_scheme \o S(<<":", "/", "/">>) \o op.url, HTTP)} :
           /\ cache' = r.cache
           /\ reparsed' = r.info
           /\ op' = [op EXCEPT !.pc = IF r.ok THEN "parsed both" ELSE "raised again"]
    /\ UNCHANGED <<encCall, rt, fp, qc, fn, info>>

NextNaked == ParseCall \/ ParseAfterScheme

SpecNaked == InitNaked /\ [][NextNaked]_vars

\* C15: for a relative default scheme d and a text 'H:R' whose H has a '.' or
\* is localhost, URLInfo.parse('H:R', default_scheme=d) returns the record of
\* URLInfo.parse(d + '://' + 'H:R'): both raise or both return, and the two
\* records are equal, letter case of the path included.
C15_ReclassifiedKeepsText ==
    op.pc \in {"parsed both", "raised again"} =>
        /\ op.pc = "parsed both" <=> op.err = ""
        /\ info = reparsed

----------------------------------------------------------------------------
(* URLInfo.parse_authority and the authority setter on authorities with     *)
(* '@'                                                                      *)

MaxAuthorityLen == 4

AtAuthorities ==
    SeqsUpTo({Ord("a"), Ord("@"), Ord(":")}, MaxAuthorityLen)
        \cup {S(<<"a", "@", "b", "@", "e", ".", "c">>), S(<<"a", ":", "p", "@", "b", "@", "h">>)}

InitAuthority ==
    /\ OnlyFn
    /\ \E text \in AtAuthorities :
           fn = [pc |-> "start", authority |-> text, out |-> << <<>>, <<>> >>,
                 ok |-> FALSE, hostname |-> None]

\* out = URLInfo.parse_authority(authority); then the authority is assigned
\* to a URLInfo of scheme http, as URLInfo.parse does.
ParseAuthorityCall ==
    /\ fn.pc = "start"
    /\ \E a \in {authority_setter(URLInfo(HTTP, None, NoPort, None), fn.authority)} :
           fn' = [fn EXCEPT !.pc = "done", !.out = parse_authority(fn.authority),
                            !.ok = a.ok, !.hostname = IF a.ok THEN a.self.hostname ELSE None]
    /\ UNCHANGED <<cache, encCall, rt, fp, qc, urlVars>>

NextAuthority == ParseAuthorityCall

SpecAuthority == InitAuthority /\ [][NextAuthority]_vars

AtCount(text) == Cardinality({i \in 1..Len(text) : text[i] = Ord("@")})

\* C16: an authority with more than one '@' is split at its last '@': the
\* userinfo is the text before it and the host the text after it, and the
\* host of 'a@b@e.c' is 'e.c'.
C16_SplitAtLastAt ==
    (fn.pc = "done" /\ AtCount(fn.authority) > 1) =>
        /\ fn.out = << Upto(fn.authority, RFind(fn.authority, Ord("@")) - 1),
                       From(fn.authority, RFind(fn.authority, Ord("@")) + 1) >>
        /\ fn.authority = S(<<"a", "@", "b", "@", "e", ".", "c">>)
               => (fn.ok /\ fn.hostname = S(<<"e", ".", "c">>))

----------------------------------------------------------------------------
(* URLInfo.parse of URLs of relative schemes with and without a port token  *)

PortTokens ==
    { S(<<"0">>), S(<<"0", "0">>), S(<<"1">>), S(<<"2", "1">>), S(<<"8", "0">>), S(<<"0", "8", "0">>),
      S(<<"4", "4", "3">>), S(<<"8", "0", "8", "0">>), S(<<"6", "5", "5", "3", "5">>),
      S(<<"6", "5", "5", "3", "6">>), S(<<"7", "0", "0", "0", "0">>),
      S(<<"9", "9", "9", "9", "9", "9", "9", "9", "9", "9", "9">>),
      <<>>, S(<<"x">>), S(<<"8", "0", "a">>), S(<<"-", "1">>), S(<<"-", "8", "0">>),
      S(<<"+", "1">>), S(<<"1", "_", "0">>) }

PortSchemes == {HTTP, HTTPS, S(<<"f", "t", "p">>), S(<<"w", "s">>)}

PortPaths == {<<>>, S(<<"/", "p">>)}

PortInputs ==
    {scheme \o S(<<":", "/", "/", "h">>) \o path : scheme \in PortSchemes, path \in PortPaths}
        \cup {scheme \o S(<<":", "/", "/", "h", ":">>) \o token \o path :
                  scheme \in PortSchemes, token \in PortTokens, path \in PortPaths}

InitPort ==
    /\ cache = <<>>
    /\ encCall = NoCall
    /\ rt = NoRoundTrip
    /\ fp = NoFlatten
    /\ qc = NoQuery
    /\ fn = NoFn
    /\ info = NoInfo
    /\ reparsed = NoInfo
    /\ \E u \in PortInputs :
           op = [pc |-> "start", url |-> u, default_scheme |-> None, err |-> "", rendered |-> <<>>]

NextPort == ParseCall

SpecPort == InitPort /\ [][NextPort]_vars

\* The host text of scheme://host/path and its port token; None when the
\* host has no ':'.
HostText(url_text) ==
    LET rest == From(url_text, Find(url_text, Ord("/")) + 2)
    IN IF Has(rest, Ord("/")) THEN Upto(rest, Find(rest, Ord("/")) - 1) ELSE rest

PortToken(url_text) ==
    IF Has(HostText(url_text), Ord(":"))
    THEN From(HostText(url_text), RFind(HostText(url_text), Ord(":")) + 1)
    ELSE None

SchemeOf(url_text) == Upto(url_text, Find(url_text, Ord(":")) - 1)

IsDecimal(token) == Len(token) > 0 /\ \A i \in 1..Len(token) : token[i] \in Ord("0")..Ord("9")

RECURSIVE DecimalValue(_)
DecimalValue(token) ==
    IF Len(token) = 0 THEN 0
    ELSE 10 * DecimalValue(Upto(token, Len(token) - 1)) + (token[Len(token)] - Ord("0"))

\* C17: after a parse of a URL of a relative scheme, the port is the value of
\* the port token when the token is a number in 0..65535, 0 included, and
\* the default port of the scheme when the host has no port token; a token
\* that is empty, not a number, negative or above 65535 makes parse raise.
C17_PortIsTokenOrDefault ==
    op.pc \in {"parsed", "raised"} =>
        With([token \in {PortToken(op.url)} |->
            IF token = None
            THEN op.pc = "parsed" /\ info.port = RELATIVE_SCHEME_DEFAULT_PORTS[SchemeOf(op.url)]
            ELSE IF IsDecimal(token) /\ Len(token) <= 5 /\ DecimalValue(token) <= 65535
            THEN op.pc = "parsed" /\ info.port = DecimalValue(token)
            ELSE IF \/ token = <<>>
                    \/ IsDecimal(token)
                    \/ \E i \in 1..Len(token) : token[i] \in Ord("a")..Ord("z")
                    \/ (token[1] = Ord("-") /\ IsDecimal(Tail(token)) /\ DecimalValue(Tail(token)) > 0)
            THEN op.pc = "raised" /\ op.err = "ValueError"
            ELSE TRUE])

----------------------------------------------------------------------------
(* parse_ipv4_address on integer forms of one to four parts                 *)

IPv4Parts == {S(<<"1">>), S(<<"0", "x", "1", "0">>), S(<<"0", "1", "0">>), S(<<"2", "5", "5">>), S(<<"2", "5", "6">>)}

IPv4Forms ==
    IPv4Parts
        \cup {a \o S(<<".">>) \o b : a \in IPv4Parts, b \in IPv4Parts}
        \cup {a \o S(<<".">>) \o b \o S(<<".">>) \o c : a \in IPv4Parts, b \in IPv4Parts, c \in IPv4Parts}
        \cup {a \o S(<<".">>) \o b \o S(<<".">>) \o c \o S(<<".">>) \o d :
                  a \in IPv4Parts, b \in IPv4Parts, c \in IPv4Parts, d \in IPv4Parts}

IPv4Others ==
    { S(<<"0">>), S(<<"6", "5", "5", "3", "6">>), S(<<"1", "6", "7", "7", "7", "2", "1", "6">>),
      S(<<"0", "x", "7", "f", "0", "0", "0", "1">>), S(<<"1", ".", "6", "5", "5", "3", "5">>),
      S(<<"1", ".", "2", ".", "0", "x", "f", "f", "f", "f">>), S(<<"1", "2", "3", ".", "1", "2", "3">>),
      S(<<"0", "3", "0", "0", ".", "0", "0", "0", "0", ".", "0", "0", "0", "2", ".", "0", "3", "5", "3">>),
      S(<<"a">>), S(<<"1", ".", "a">>), S(<<"0", "8">>), S(<<"1", ".", "2", ".", "3", ".", "9", "9", "9">>),
      S(<<"1", ".", "2", ".", "3", ".", "4", ".", "5">>), S(<<"1", ".", ".", "2">>) }

InitIPv4 ==
    /\ OnlyFn
    /\ \E address \in IPv4Forms \cup IPv4Others :
           fn = [pc |-> "start", address |-> address, out |-> NoAddress]

\* out = parse_ipv4_address(address)
ParseIPv4Call ==
    /\ fn.pc = "start"
    /\ fn' = [fn EXCEPT !.pc = "done", !.out = parse_ipv4_address(fn.address)]
    /\ UNCHANGED <<cache, encCall, rt, fp, qc, urlVars>>

NextIPv4 == ParseIPv4Call

SpecIPv4 == InitIPv4 /\ [][NextIPv4]_vars

\* The value of one part by the inet_aton rules, -1 when it is not a number
\* below 2^28: hex after 0x, octal after 0, decimal otherwise.
DigitOf(c) ==
    IF c \in Ord("0")..Ord("9") THEN c - Ord("0")
    ELSE IF c \in Ord("a")..Ord("f") THEN c - Ord("a") + 10
    ELSE IF c \in Ord("A")..Ord("F") THEN c - Ord("A") + 10
    ELSE 99

RECURSIVE BaseValue(_, _)
BaseValue(digits, base) ==
    IF Len(digits) = 0 THEN 0
    ELSE base * BaseValue(Upto(digits, Len(digits) - 1), base) + DigitOf(digits[Len(digits)])

AtonPart(text) ==
    LET base == IF StartsWith(text, S(<<"0", "x">>)) THEN 16 ELSE IF StartsWith(text, S(<<"0">>)) /\ Len(text) > 1 THEN 8 ELSE 10
        digits == IF base = 16 THEN From(text, 3) ELSE IF base = 8 THEN Tail(text) ELSE text
        trimmed == IF \E i \in 1..Len(digits) : digits[i] # Ord("0")
                   THEN From(digits, CHOOSE i \in 1..Len(digits) : digits[i] # Ord("0") /\ \A j \in 1..(i - 1) : digits[j] = Ord("0"))
                   ELSE <<>>
    IN IF Len(digits) = 0 \/ (\E i \in 1..Len(digits) : DigitOf(digits[i]) >= base) \/ Len(trimmed) > (IF base = 16 THEN 7 ELSE 9)
       THEN -1
       ELSE BaseValue(trimmed, base)

\* The four octets of a.b.c.d, a.b.c, a.b and a by the inet_aton rules: the
\* last part fills the octets the leading parts leave; <<>> when the text is
\* not such a form.
AtonOctets(address) ==
    LET parts == Split(address, Ord("."))
        n == Len(parts)
        value == [i \in 1..n |-> AtonPart(parts[i])]
        room == IF n = 1 THEN 4 ELSE IF n = 2 THEN 3 ELSE IF n = 3 THEN 2 ELSE 1
        last == value[n]
    IN IF n \notin 1..4 \/ (\E i \in 1..n : value[i] < 0) \/ (\E i \in 1..(n - 1) : value[i] > 255)
       THEN <<>>
       ELSE IF room = 1 /\ last > 255 THEN <<>>
       ELSE IF room = 2 /\ last > 65535 THEN <<>>
       ELSE IF room = 3 /\ last > 16777215 THEN <<>>
       ELSE [i \in 1..4 |->
                IF i < n THEN value[i]
                ELSE IF i = 4 THEN last % 256
                ELSE IF i = 3 THEN (last \div 256) % 256
                ELSE IF i = 2 THEN (last \div 65536) % 256
                ELSE last \div 16777216]

\* C18: parse_ipv4_address returns, for a text of one to four parts that are
\* decimal, octal or hex numbers in the inet_aton ranges, the address of the
\* inet_aton value, and raises for a part out of range.
C18_AtonFormsAccepted ==
    fn.pc = "done" =>
        IF AtonOctets(fn.address) = <<>>
        THEN ~fn.out.ok
        ELSE fn.out.ok /\ fn.out.words = AtonOctets(fn.address)

----------------------------------------------------------------------------
(* split_query on query strings, with both values of keep_blank_values and  *)
(* of decode_escape                                                         *)

MaxQueryLen == 4

QueryStrings ==
    SeqsUpTo({Ord("a"), Ord("="), Ord("&"), Ord("+")}, MaxQueryLen)
        \cup { S(<<"a", "=", "%", "4", "1">>), S(<<"%", "2", "F", "=", "b", "&", "c">>),
               S(<<"a", "=", "%", "2", "F", "&", "b", "=">>), S(<<"a", "=", "%", "F", "F">>),
               S(<<"a", "%", "3", "D", "b">>), S(<<"a", "=", "%", "2", "6", "&", "&", "b">>),
               S(<<"%", "=", "%", "4">>), <<97, 61, 233, 38, 98, 38, 99, 61>> }

InitSplit ==
    /\ OnlyFn
    /\ \E qs \in QueryStrings, keep_blank_values \in BOOLEAN, decode_escape \in BOOLEAN :
           fn = [pc |-> "start", qs |-> qs, keep_blank_values |-> keep_blank_values,
                 decode_escape |-> decode_escape, items |-> <<>>]

\* items = split_query(qs, keep_blank_values, decode_escape)
SplitQueryOf ==
    /\ fn.pc = "start"
    /\ \E r \in {split_query(fn.qs, fn.keep_blank_values, fn.decode_escape)} :
           fn' = IF r.ok THEN [fn EXCEPT !.pc = "done", !.items = r.items]
                 ELSE [fn EXCEPT !.pc = "raised"]
    /\ UNCHANGED <<cache, encCall, rt, fp, qc, urlVars>>

NextSplit == SplitQueryOf

SpecSplit == InitSplit /\ [][NextSplit]_vars

\* The pair one item stands for: the texts on both sides of its first '=',
\* decoded when decode_escape; the value is None when the item has no '='.
DecodedText(text, decode_escape) == IF decode_escape THEN percent_decode_plus(text, TRUE).text ELSE text

PairOfItem(item, decode_escape) ==
    IF Has(item, Ord("="))
    THEN << DecodedText(Upto(item, Find(item, Ord("=")) - 1), decode_escape),
            DecodedText(From(item, Find(item, Ord("=")) + 1), decode_escape) >>
    ELSE << DecodedText(item, decode_escape), None >>

PairsOfItems(qs, decode_escape) ==
    [i \in 1..Len(Split(qs, Ord("&"))) |-> PairOfItem(Split(qs, Ord("&"))[i], decode_escape)]

HasValue(pair) == pair[2] # None /\ pair[2] # <<>>

\* C19: split_query takes the '&'-separated items of the query string and
\* splits each at its first '='.  With keep_blank_values it returns one pair
\* for every item, in order, with value None for an item without '=' and the
\* right-hand text, empty or not, otherwise; without keep_blank_values it
\* returns the pairs of the items whose value is not empty, in order.  Key
\* and value are percent-and-plus decoded with decode_escape, verbatim
\* without it.
C19_SplitQueryItems ==
    fn.pc = "done" =>
        fn.items = IF fn.keep_blank_values
                   THEN PairsOfItems(fn.qs, fn.decode_escape)
                   ELSE SelectSeq(PairsOfItems(fn.qs, fn.decode_escape), HasValue)

C19_Witness ==
    /\ fn.pc = "done"
    /\ fn.qs = S(<<"a", "=", "&", "+">>)
    /\ fn.keep_blank_values
    /\ fn.decode_escape
    /\ fn.items = << <<S(<<"a">>), <<>> >>, <<S(<<" ">>), None>> >>

----------------------------------------------------------------------------
(* URLInfo.geturl after URLInfo.parse and the url property                  *)

\* URLInfo.geturl: the body of the method is its docstring, so every call
\* returns None.
geturl(self, defrag) == None

\* out = info.geturl(defrag)
GetUrlCall ==
    /\ op.pc = "rendered"
    /\ fn = NoFn
    /\ \E defrag \in BOOLEAN :
           fn' = [pc |-> "done", defrag |-> defrag, out |-> geturl(info, defrag)]
    /\ UNCHANGED <<cache, encCall, rt, fp, qc, urlVars>>

NextGetUrl == ParseCall \/ RenderUrl \/ GetUrlCall

SpecGetUrl == InitParse /\ [][NextGetUrl]_vars

WithoutFragment(url_text) ==
    IF Has(url_text, Ord("#")) THEN Upto(url_text, Find(url_text, Ord("#")) - 1) ELSE url_text

\* C20: geturl() returns the text of the url property, and
\* geturl(defrag=True) returns that text without its fragment.
C20_GetUrlIsUrl ==
    fn.pc = "done" =>
        fn.out = IF fn.defrag THEN WithoutFragment(op.rendered) ELSE op.rendered

----------------------------------------------------------------------------
(* encode.py: concurrent calls of percent_encode_bytes.  Each thread runs   *)
(* the call one dictionary operation at a time; the cache maps an encode    *)
(* set to the identity of a PercentEncoderMap, and every map made is kept   *)
(* in maps under its identity.                                              *)

MaxThreads == 2
MaxRaceLen == 2

Threads == 1..MaxThreads
RaceData == SeqsUpTo({Ord("a"), Ord(" "), Ord("&")}, MaxRaceLen)
RaceEncodeSets == {DEFAULT_ENCODE_SET, QUERY_KEY_ENCODE_SET}

\* The lookup under the first key of the cache, whatever the encode set.
CachedMapper_any_key(c, encode_set) ==
    IF DOMAIN c # {} THEN c[CHOOSE k \in DOMAIN c : TRUE] ELSE 0

\* _percent_encoder_map_cache[encode_set]: the identity of the cached map,
\* 0 for KeyError.
CachedMapper(c, encode_set) ==
    IF encode_set \in DOMAIN c THEN c[encode_set] ELSE 0

InitRace ==
    /\ cache = <<>>
    /\ info = NoInfo
    /\ reparsed = NoInfo
    /\ op = NoOp
    /\ encCall = NoCall
    /\ rt = NoRoundTrip
    /\ fp = NoFlatten
    /\ qc = NoQuery
    /\ \E calls \in [Threads -> RaceData \X RaceEncodeSets] :
           fn = [pc |-> "threads", cache |-> <<>>, maps |-> <<>>,
                 thread |-> [t \in Threads |->
                                [pc |-> "lookup", data |-> calls[t][1], encode_set |-> calls[t][2],
                                 mapper |-> 0, i |-> 1, result |-> <<>>, out |-> <<>>]]]

\* try: return _percent_encoder_map_cache[encode_set]
LookupMapper ==
    /\ fn.pc = "threads"
    /\ \E t \in Threads :
           /\ fn.thread[t].pc = "lookup"
           /\ \E mapper \in {CachedMapper(fn.cache, fn.thread[t].encode_set)} :
                  fn' = [fn EXCEPT !.thread[t].mapper = mapper,
                                   !.thread[t].pc = IF mapper = 0 THEN "make" ELSE "encode"]
    /\ UNCHANGED <<cache, encCall, rt, fp, qc, urlVars>>

\* except KeyError: mapper = PercentEncoderMap(encode_set)
MakeMapper ==
    /\ fn.pc = "threads"
    /\ \E t \in Threads :
           /\ fn.thread[t].pc = "make"
           /\ fn' = [fn EXCEPT !.maps = Append(fn.maps, [encode_set |-> fn.thread[t].encode_set, memo |-> <<>>]),
                               !.thread[t].mapper = Len(fn.maps) + 1,
                               !.thread[t].pc = "store"]
    /\ UNCHANGED <<cache, encCall, rt, fp, qc, urlVars>>

\* _percent_encoder_map_cache[encode_set] = mapper
StoreMapper ==
    /\ fn.pc = "threads"
    /\ \E t \in Threads :
           /\ fn.thread[t].pc = "store"
           /\ fn' = [fn EXCEPT !.cache = (fn.thread[t].encode_set :> fn.thread[t].mapper) @@ fn.cache,
                               !.thread[t].pc = "encode"]
    /\ UNCHANGED <<cache, encCall, rt, fp, qc, urlVars>>

\* mapping_func(char): the memoized bytes, or __missing__ computes them from
\* the encode set of the map.
GetItem ==
    /\ fn.pc = "threads"
    /\ \E t \in Threads :
           /\ fn.thread[t].pc = "encode"
           /\ fn.thread[t].i <= Len(fn.thread[t].data)
           /\ \E char \in {fn.thread[t].data[fn.thread[t].i]}, mapper \in {fn.maps[fn.thread[t].mapper]} :
                  fn' = IF char \in DOMAIN mapper.memo
                        THEN [fn EXCEPT !.thread[t].out = fn.thread[t].out \o mapper.memo[char],
                                        !.thread[t].i = fn.thread[t].i + 1]
                        ELSE [fn EXCEPT !.thread[t].result = EncoderMapMissing(mapper.encode_set, char),
                                        !.thread[t].pc = "missing"]
    /\ UNCHANGED <<cache, encCall, rt, fp, qc, urlVars>>

\* self[char] = result; return result
StoreMissing ==
    /\ fn.pc = "threads"
    /\ \E t \in Threads :
           /\ fn.thread[t].pc = "missing"
           /\ \E char \in {fn.thread[t].data[fn.thread[t].i]} :
                  fn' = [fn EXCEPT !.maps[fn.thread[t].mapper].memo = (char :> fn.thread[t].result) @@ @,
                                   !.thread[t].out = fn.thread[t].out \o fn.thread[t].result,
                                   !.thread[t].i = fn.thread[t].i + 1,
                                   !.thread[t].pc = "encode"]
    /\ UNCHANGED <<cache, encCall, rt, fp, qc, urlVars>>

\* return b''.join(...)
ReturnBytes ==
    /\ fn.pc = "threads"
    /\ \E t \in Threads :
           /\ fn.thread[t].pc = "encode"
           /\ fn.thread[t].i > Len(fn.thread[t].data)
           /\ fn' = [fn EXCEPT !.thread[t].pc = "done"]
    /\ UNCHANGED <<cache, encCall, rt, fp, qc, urlVars>>

NextRace == LookupMapper \/ MakeMapper \/ StoreMapper \/ GetItem \/ StoreMissing \/ ReturnBytes

SpecRace == InitRace /\ [][NextRace]_vars

\* C21: in every interleaving of concurrent percent_encode_bytes calls, a
\* call that has returned has returned the bytes the same call returns when
\* it runs alone, and every call that holds a map holds one that exists.
C21_ConcurrentCallsAgree ==
    fn.pc = "threads" =>
        \A t \in Threads :
            /\ fn.thread[t].pc = "done"
                   => fn.thread[t].out = percent_encode_bytes(<<>>, fn.thread[t].data, fn.thread[t].encode_set).out
            /\ fn.thread[t].pc \in {"store", "encode", "missing", "done"}
                   => fn.thread[t].mapper \in 1..Len(fn.maps)

\* Both calls raced on the first use of one encode set: each made its own
\* map, and both have returned.
C21_Witness ==
    /\ fn.pc = "threads"
    /\ \A t \in Threads : fn.thread[t].pc = "done" /\ Len(fn.thread[t].data) = MaxRaceLen
    /\ Len(fn.maps) >= 2
    /\ fn.maps[1].encode_set = fn.maps[2].encode_set

----------------------------------------------------------------------------
(* network/stream.py: Stream and _run_network_operation.  A stream is       *)
(* [closed, writer_closed]; a call is awaited until the operation           *)
(* completes, fails, or asyncio.wait_for raises TimeoutError.               *)

MaxOperations == 3

StreamOperations == {"Read", "Readline", "Write", "Writelines"}
Timeouts == {"None", "1"}

NoStream == [made |-> FALSE, closed |-> FALSE, writer_closed |-> FALSE]
NoAwait == [name |-> "", timeout |-> "None", pc |-> "idle", err |-> "", expired |-> FALSE,
            closed_before |-> FALSE]

\* Stream.close without the assignment to _closed.
close_connection_only(stream) == [stream EXCEPT !.writer_closed = TRUE]

\* Stream.close: the connection is closed, then _closed is set.
close(stream) == [stream EXCEPT !.writer_closed = TRUE, !.closed = TRUE]

\* The except clause of _run_network_operation: the stream, when one was
\* passed, is closed before NetworkTimeoutError is raised.
OnTimeoutError(stream, passed) == IF passed THEN close(stream) ELSE stream

InitStream ==
    /\ OnlyFn
    /\ fn = [pc |-> "stream", stream |-> NoStream, call |-> NoAwait, n |-> 0]

\* Stream.connect(address, timeout=...): awaits Connection.connect
Connect ==
    /\ fn.pc = "stream"
    /\ fn.call.pc \in {"idle", "returned", "raised"}
    /\ ~fn.stream.made
    /\ fn.n < MaxOperations
    /\ \E timeout \in Timeouts :
           fn' = [fn EXCEPT !.n = fn.n + 1,
                            !.call = [name |-> "Connect", timeout |-> timeout, pc |-> "waiting", err |-> "",
                                      expired |-> FALSE, closed_before |-> fn.stream.closed]]
    /\ UNCHANGED <<cache, encCall, rt, fp, qc, urlVars>>

\* stream.read / readline / write / writelines (timeout=...): awaits the
\* operation of the connection
StartOperation ==
    /\ fn.pc = "stream"
    /\ fn.call.pc \in {"idle", "returned", "raised"}
    /\ fn.stream.made
    /\ fn.n < MaxOperations
    /\ \E name \in StreamOperations, timeout \in Timeouts :
           fn' = [fn EXCEPT !.n = fn.n + 1,
                            !.call = [name |-> name, timeout |-> timeout, pc |-> "waiting", err |-> "",
                                      expired |-> FALSE, closed_before |-> fn.stream.closed]]
    /\ UNCHANGED <<cache, encCall, rt, fp, qc, urlVars>>

\* The awaited operation completes in time: its result is returned; a
\* completed connect returns Stream(connection).
Complete ==
    /\ fn.pc = "stream"
    /\ fn.call.pc = "waiting"
    /\ fn' = [fn EXCEPT !.call.pc = "returned",
                        !.stream = IF fn.call.name = "Connect"
                                   THEN [made |-> TRUE, closed |-> FALSE, writer_closed |-> FALSE]
                                   ELSE fn.stream]
    /\ UNCHANGED <<cache, encCall, rt, fp, qc, urlVars>>

\* The awaited operation raises an error of its own, which is not caught.
Fail ==
    /\ fn.pc = "stream"
    /\ fn.call.pc = "waiting"
    /\ fn' = [fn EXCEPT !.call.pc = "raised", !.call.err = "ConnectionError"]
    /\ UNCHANGED <<cache, encCall, rt, fp, qc, urlVars>>

\* asyncio.wait_for raises TimeoutError after timeout seconds; the except
\* clause closes the stream it was given and raises NetworkTimeoutError.
TimeOut ==
    /\ fn.pc = "stream"
    /\ fn.call.pc = "waiting"
    /\ fn.call.timeout # "None"
    /\ fn' = [fn EXCEPT !.call.pc = "raised", !.call.err = "NetworkTimeoutError",
                        !.call.expired = TRUE,
                        !.stream = OnTimeoutError(fn.stream, fn.call.name # "Connect")]
    /\ UNCHANGED <<cache, encCall, rt, fp, qc, urlVars>>

\* stream.close() called by the owner between operations
CloseStream ==
    /\ fn.pc = "stream"
    /\ fn.call.pc \in {"idle", "returned", "raised"}
    /\ fn.stream.made
    /\ ~fn.stream.closed
    /\ fn' = [fn EXCEPT !.stream = close(fn.stream), !.call = NoAwait]
    /\ UNCHANGED <<cache, encCall, rt, fp, qc, urlVars>>

NextStream == Connect \/ StartOperation \/ Complete \/ Fail \/ TimeOut \/ CloseStream

SpecStream == InitStream /\ [][NextStream]_vars

\* C22: when a read, readline, write or writelines has timed out, the caller
\* has NetworkTimeoutError and the stream is closed; a connect that has timed
\* out has raised NetworkTimeoutError; an operation that has returned left
\* closed as it was.
C22_TimeoutClosesStream ==
    fn.pc = "stream" =>
        /\ fn.call.expired => (fn.call.pc = "raised" /\ fn.call.err = "NetworkTimeoutError")
        /\ (fn.call.expired /\ fn.call.name \in StreamOperations) => fn.stream.closed
        /\ (fn.call.pc = "returned" /\ fn.call.name \in StreamOperations)
               => fn.stream.closed = fn.call.closed_before

C22_Witness ==
    /\ fn.pc = "stream"
    /\ fn.call.name = "Read"
    /\ fn.call.expired
    /\ fn.call.err = "NetworkTimeoutError"
    /\ ~fn.call.closed_before
    /\ fn.stream.closed

----------------------------------------------------------------------------
(* network/bandwidth.py: BandwidthMeter.  Times are whole ticks; NoTime is  *)
(* None.  time.monotonic() reads clock, which never runs backwards and is   *)
(* never 0.                                                                 *)

MaxFeeds == 3
MaxClock == 6

NoTime == -1
SampleSizes == {0, 1, 2}
SampleMinTimes == {0, 1, 2}
FeedLens == {0, 1, 2}
FeedTimes == {NoTime, 0, 1, 2, 3}

\* deque(maxlen=n).append(sample)
DequeAppend(samples, maxlen, sample) ==
    IF maxlen = 0 THEN <<>>
    ELSE IF Len(samples) < maxlen THEN Append(samples, sample)
    ELSE Append(Tail(samples), sample)

\* BandwidthMeter.feed(data_len, feed_time) at clock time now: the meter left
\* behind.
feed(self, data_len, feed_time, now) ==
    IF data_len = 0 THEN self
    ELSE With([time_now \in {IF feed_time = NoTime \/ feed_time = 0 THEN now ELSE feed_time} |->
             IF self.last_feed_time = NoTime \/ self.last_feed_time = 0
             THEN [self EXCEPT !.last_feed_time = time_now]
             ELSE IF time_now - self.last_feed_time < self.sample_min_time THEN self
             ELSE [self EXCEPT !.last_feed_time = time_now,
                               !.collected_bytes_transferred = 0,
                               !.samples = DequeAppend(self.samples, self.sample_size,
                                                       <<time_now - self.last_feed_time,
                                                         self.collected_bytes_transferred + data_len>>)]])

RECURSIVE SumOf(_, _)
SumOf(samples, k) == IF Len(samples) = 0 THEN 0 ELSE Head(samples)[k] + SumOf(Tail(samples), k)

\* BandwidthMeter.speed(): <<bytes, seconds>> of the quotient, <<0, 1>> for 0
speed(self) ==
    IF Len(self.samples) > 0 /\ SumOf(self.samples, 1) # 0
    THEN <<SumOf(self.samples, 2), SumOf(self.samples, 1)>>
    ELSE <<0, 1>>

collected_sample_count(self) == Len(self.samples)

InitMeter ==
    /\ OnlyFn
    /\ \E sample_size \in SampleSizes, sample_min_time \in SampleMinTimes :
           fn = [pc |-> "meter", clock |-> 4, log |-> <<>>, before |-> <<>>,
                 self |-> [samples |-> <<>>, sample_size |-> sample_size,
                           sample_min_time |-> sample_min_time, last_feed_time |-> NoTime,
                           collected_bytes_transferred |-> 0]]

\* meter.feed(data_len, feed_time)
Feed ==
    /\ fn.pc = "meter"
    /\ Len(fn.log) < MaxFeeds
    /\ \E data_len \in FeedLens, feed_time \in FeedTimes :
           fn' = [fn EXCEPT !.self = feed(fn.self, data_len, feed_time, fn.clock),
                            !.before = fn.self,
                            !.log = Append(fn.log, [data_len |-> data_len, feed_time |-> feed_time,
                                                    now |-> fn.clock])]
    /\ UNCHANGED <<cache, encCall, rt, fp, qc, urlVars>>

\* Time passes.
Tick ==
    /\ fn.pc = "meter"
    /\ fn.clock < MaxClock
    /\ fn' = [fn EXCEPT !.clock = fn.clock + 1]
    /\ UNCHANGED <<cache, encCall, rt, fp, qc, urlVars>>

NextMeter == Feed \/ Tick

SpecMeter == InitMeter /\ [][NextMeter]_vars

\* The time of a feed: its feed_time, the clock when none was given.
TimeOfFeed(call) == IF call.feed_time = NoTime THEN call.now ELSE call.feed_time

\* The number of accepted feeds of log from call i on, after a last recorded
\* feed at time last (NoTime before the first positive feed).
RECURSIVE AcceptedFrom(_, _, _, _, _)
AcceptedFrom(log, i, last, first_seen, sample_min_time) ==
    IF i > Len(log) THEN 0
    ELSE IF log[i].data_len = 0 THEN AcceptedFrom(log, i + 1, last, first_seen, sample_min_time)
    ELSE IF ~first_seen THEN AcceptedFrom(log, i + 1, TimeOfFeed(log[i]), TRUE, sample_min_time)
    ELSE IF TimeOfFeed(log[i]) - last >= sample_min_time
    THEN 1 + AcceptedFrom(log, i + 1, TimeOfFeed(log[i]), TRUE, sample_min_time)
    ELSE AcceptedFrom(log, i + 1, last, first_seen, sample_min_time)

Min(a, b) == IF a < b THEN a ELSE b

\* C23: after any sequence of feeds, collected_sample_count is the smaller of
\* sample_size and the number of accepted feeds; a feed of 0 bytes changes
\* nothing; speed() is 0 while there are no samples.
C23_SampleCountIsAcceptedFeeds ==
    fn.pc = "meter" =>
        /\ collected_sample_count(fn.self)
               = Min(fn.self.sample_size, AcceptedFrom(fn.log, 1, NoTime, FALSE, fn.self.sample_min_time))
        /\ (Len(fn.log) > 0 /\ fn.log[Len(fn.log)].data_len = 0) => fn.self = fn.before
        /\ collected_sample_count(fn.self) = 0 => speed(fn.self) = <<0, 1>>

----------------------------------------------------------------------------
(* Assignments to the composite views, with the last text assigned to host  *)
(* (directly or through authority or origin) and to resource                *)

NoTexts == [pc |-> "texts", host |-> None, scheme |-> None, resource |-> None]

\* The texts after a successful assignment of host_text under scheme.
HostAssigned(r, host_text) ==
    IF r.ok
    THEN [(IF fn = NoFn THEN NoTexts ELSE fn) EXCEPT !.host = host_text, !.scheme = r.self.scheme]
    ELSE IF fn = NoFn THEN NoTexts ELSE fn

\* info.origin = new_origin
AssignOrigin ==
    /\ CanAssign
    /\ \E new_origin \in OriginTexts :
           \E r \in {origin_setter(info, new_origin)}, parsed \in {parse_origin(new_origin)} :
               /\ info' = r.self
               /\ op' = Assigned("origin", r, IF parsed.ok THEN parse_authority(parsed.authority)[2] ELSE None)
               /\ fn' = HostAssigned(r, IF parsed.ok THEN parse_authority(parsed.authority)[2] ELSE None)
    /\ UNCHANGED <<cache, encCall, rt, fp, qc, reparsed>>

\* info.authority = new_authority
AssignAuthority ==
    /\ CanAssign
    /\ \E new_authority \in AuthorityTexts :
           \E r \in {authority_setter(info, new_authority)} :
               /\ info' = r.self
               /\ op' = Assigned("authority", r, parse_authority(new_authority)[2])
               /\ fn' = HostAssigned(r, parse_authority(new_authority)[2])
    /\ UNCHANGED <<cache, encCall, rt, fp, qc, reparsed>>

\* info.host = new_host
AssignHost ==
    /\ CanAssign
    /\ \E new_host \in HostTexts :
           \E r \in {host_setter(info, new_host)} :
               /\ info' = r.self
               /\ op' = Assigned("host", r, new_host)
               /\ fn' = HostAssigned(r, new_host)
    /\ UNCHANGED <<cache, encCall, rt, fp, qc, reparsed>>

\* info.resource = new_resource
AssignResource ==
    /\ CanAssign
    /\ \E new_resource \in ResourceTexts :
           \E r \in {resource_setter(cache, info, new_resource)} :
               /\ info' = r.self
               /\ cache' = r.cache
               /\ op' = Assigned("resource", r, None)
               /\ fn' = IF r.ok THEN [(IF fn = NoFn THEN NoTexts ELSE fn) EXCEPT !.resource = new_resource]
                        ELSE IF fn = NoFn THEN NoTexts ELSE fn
    /\ UNCHANGED <<encCall, rt, fp, qc, reparsed>>

NextRederive == Construct \/ ParseNew \/ AssignOrigin \/ AssignAuthority \/ AssignHost \/ AssignResource

SpecRederive == InitViews /\ [][NextRederive]_vars

\* The port token of a host text, None when it has none.
PortTokenOfHost(host_text) ==
    IF EndsWith(host_text, S(<<"]">>)) \/ ~Has(host_text, Ord(":")) THEN None
    ELSE From(host_text, RFind(host_text, Ord(":")) + 1)

\* C24: after any sequence of assignments, hostname and address are those of
\* the last host text assigned, directly or through authority or origin, the
\* port is the port of that text, or without one the default port of the
\* scheme in force at that assignment, and path, query and fragment are those
\* of the last resource text assigned.
C24_ViewsRederived ==
    (Made /\ fn # NoFn) =>
        /\ fn.host # None =>
               /\ info.hostname = parse_host(fn.host).hostname
               /\ info.address = parse_host(fn.host).address
               /\ info.port = IF PortTokenOfHost(fn.host) = None THEN DefaultPortOf(fn.scheme)
                              ELSE DecimalValue(PortTokenOfHost(fn.host))
        /\ fn.resource # None =>
               /\ info.path = normalize_path(<<>>, parse_resource(fn.resource).path).out
               /\ info.query = normalize_query(<<>>, parse_resource(fn.resource).query).out
               /\ info.fragment = parse_resource(fn.resource).fragment

----------------------------------------------------------------------------
(* URLInfo.parse of http URLs whose host has brackets or forbidden          *)
(* hostname characters                                                      *)

MaxBracketLen == 4

BracketBodies ==
    { S(<<":", ":">>), S(<<":", ":", "1">>), S(<<"1", ":", ":">>), S(<<":", ":", "%", "a">>),
      S(<<":", ":", "%", "]">>), S(<<":", ":", "%", "[">>), S(<<":", ":", "1", "%", "a", "]", "b">>),
      S(<<":", ":", "f", "f", "f", "f", ":", "1", ".", "2", ".", "3", ".", "4">>),
      S(<<"a">>), <<>>, S(<<"1", ".", "2", ".", "3", ".", "4">>), S(<<":", ":", "%">>) }

BracketBefore == {<<>>, S(<<"a">>), S(<<"[">>)}
BracketAfter == {<<>>, S(<<":", "8", "1">>), S(<<"a">>), S(<<"]">>), S(<<":">>), S(<<":", "x">>), S(<<".">>)}

BracketHosts ==
    {before \o S(<<"[">>) \o body \o S(<<"]">>) \o after :
         before \in BracketBefore, body \in BracketBodies, after \in BracketAfter}
        \cup SeqsUpTo({Ord("["), Ord("]"), Ord(":"), Ord("a")}, MaxBracketLen)
        \cup { S(<<"a", "%", "2", "0", "b">>), S(<<"a", " ", "b">>), S(<<"a", "\\", "b">>), S(<<"a", ":", "b", ":", "1">>),
               S(<<"A", ".", "b">>), S(<<"1", ".", "2", ".", "3", ".", "4">>), S(<<"0", "x", "1", "0">>),
               S(<<"a", ".", ".", "b">>), S(<<".">>), S(<<"a", ".">>), S(<<"%">>) }

InitBrackets ==
    /\ cache = <<>>
    /\ encCall = NoCall
    /\ rt = NoRoundTrip
    /\ fp = NoFlatten
    /\ qc = NoQuery
    /\ fn = NoFn
    /\ info = NoInfo
    /\ reparsed = NoInfo
    /\ \E host_text \in BracketHosts :
           op = [pc |-> "start", url |-> HTTP \o S(<<":", "/", "/">>) \o host_text \o S(<<"/">>),
                 default_scheme |-> None, err |-> "", rendered |-> <<>>]

NextBrackets == ParseCall

SpecBrackets == InitBrackets /\ [][NextBrackets]_vars

\* The host text between http:// and the closing '/'.
HostOfUrl(url_text) == SubSeq(url_text, Len(HTTP) + 4, Len(url_text) - 1)

\* '[' body ']' with no bracket in the body, alone or followed by ':' and
\* digits.
IsBracketForm(host_text) ==
    /\ Len(host_text) >= 2
    /\ host_text[1] = Ord("[")
    /\ Has(host_text, Ord("]"))
    /\ ~Has(SubSeq(host_text, 2, Find(host_text, Ord("]")) - 1), Ord("["))
    /\ \/ Find(host_text, Ord("]")) = Len(host_text)
       \/ /\ host_text[Find(host_text, Ord("]")) + 1] = Ord(":")
          /\ IsDecimal(From(host_text, Find(host_text, Ord("]")) + 2))

\* C25: a record that URLInfo.parse returns for an http URL has a hostname
\* that is not empty; unless the host is a bracketed IPv6 literal the
\* hostname has no forbidden hostname character; and a host with '[' or ']'
\* is accepted only as '[' literal ']' or '[' literal ']' ':' port.
C25_HostnameWellFormed ==
    op.pc = "parsed" =>
        /\ info.hostname # None /\ Len(info.hostname) > 0
        /\ info.address.version # 6 => \A char \in FORBIDDEN_HOSTNAME_CHARS : ~Has(info.hostname, char)
        /\ (Has(HostOfUrl(op.url), Ord("[")) \/ Has(HostOfUrl(op.url), Ord("]")))
               => (IsBracketForm(HostOfUrl(op.url)) /\ info.address.version = 6)

----------------------------------------------------------------------------
(* The stored path after URLInfo.parse of an http URL and after an          *)
(* assignment to resource                                                   *)

MaxNormalLen == 4

NormalTexts ==
    SeqsUpTo({Ord("."), Ord("/"), Ord("%"), Ord("a"), Ord(" ")}, MaxNormalLen)
        \cup { S(<<"/", "a", "/", ".", "/", "b", " ", "c", "/", "%", "a", "f">>),
               S(<<"/", "%", "a", "F", "%", "A", "f", "%", "2", "e">>), S(<<"/", ".", ".", "/", "i">>),
               S(<<"/", "a", "/", ".", ".", "/", ".", ".", "/", "b", "/", ".">>),
               S(<<"/", "\"", "<", ">">>) \o <<BACKTICK>>, <<47, 127, 233, 31>>, <<47, 97, 9, 98>>,
               S(<<"/", "a", "?", "b", "/", ".", "#", "/", ".", ".">>), S(<<"/", "a", "#", "?">>),
               S(<<"/", "%", "%", "a", "f", "%", "a">>), S(<<"/", "/", "/", ".", "/", "/", "/", ".", ".", "/", "/">>) }

InitNormal ==
    /\ OnlyFn
    /\ \E text \in NormalTexts, through \in {"parse", "resource"} :
           fn = [pc |-> "start", text |-> text, through |-> through, ok |-> FALSE]

\* info = URLInfo.parse('http://h' + text)
NormalParse ==
    /\ fn.pc = "start"
    /\ fn.through = "parse"
    /\ \E r \in {parse(cache, HTTP \o S(<<":", "/", "/", "h">>) \o fn.text, HTTP)} :
           /\ cache' = r.cache
           /\ info' = r.info
           /\ fn' = [fn EXCEPT !.pc = "done", !.ok = r.ok]
    /\ UNCHANGED <<encCall, rt, fp, qc, reparsed, op>>

\* info = URLInfo('http', 'h', 80, None); info.resource = text
NormalAssign ==
    /\ fn.pc = "start"
    /\ fn.through = "resource"
    /\ \E r \in {resource_setter(cache, URLInfo(HTTP, S(<<"h">>), 80, None), fn.text)} :
           /\ cache' = r.cache
           /\ info' = r.self
           /\ fn' = [fn EXCEPT !.pc = "done", !.ok = r.ok]
    /\ UNCHANGED <<encCall, rt, fp, qc, reparsed, op>>

NextNormal == NormalParse \/ NormalAssign

SpecNormal == InitNormal /\ [][NextNormal]_vars

\* A path in normal form.
IsNormalPath(path) ==
    /\ \A i \in 1..Len(Split(path, Ord("/"))) :
           Split(path, Ord("/"))[i] \notin {S(<<".">>), S(<<".", ".">>)}
    /\ \A i \in 1..(Len(path) - 1) : ~(path[i] = Ord("/") /\ path[i + 1] = Ord("/"))
    /\ \A i \in 1..Len(path) :
           /\ path[i] >= 32 /\ path[i] < 127
           /\ path[i] \notin {Ord(" "), Ord("\""), Ord("#"), Ord("<"), Ord(">"), Ord("?"), BACKTICK}
    /\ \A i \in 1..(Len(path) - 2) :
           (path[i] = Ord("%") /\ IsHexDigit(path[i + 1]) /\ IsHexDigit(path[i + 2]))
               => (~IsLower(path[i + 1]) /\ ~IsLower(path[i + 2]))

\* C26: after URLInfo.parse of an http URL and after an assignment to
\* resource, the stored path has no '.' or '..' segment, no '//', no byte
\* below 0x20 or from 0x7F on, none of space, '"', '#', '<', '>', '?' and the
\* backtick, and upper-case digits in every '%' escape.
C26_StoredPathIsNormal ==
    (fn.pc = "done" /\ fn.ok) => (info.path # None /\ IsNormalPath(info.path))

C26_Witness ==
    /\ fn.pc = "done" /\ fn.ok /\ fn.through = "parse"
    /\ fn.text = S(<<"/", "a", "/", ".", "/", "b", " ", "c", "/", "%", "a", "f">>)
    /\ info.path = S(<<"/", "a", "/", "b", "%", "2", "0", "c", "/", "%", "A", "F">>)

\* C27: the stored path of a record parsed from an http URL whose resource
\* has a path that is not empty begins with '/'.
C27_PathKeepsLeadingSlash ==
    (fn.pc = "done" /\ fn.ok /\ fn.through = "parse" /\ StartsWith(fn.text, S(<<"/">>)))
        => (info.path # None /\ StartsWith(info.path, S(<<"/">>)))

----------------------------------------------------------------------------
(* Assignments to origin and authority, with the object as it was before    *)
(* the assignment                                                           *)

\* The host part of new_authority was reached and parse_host raised on it.
HostPartRaised(self, new_authority) ==
    /\ userinfo_setter(self, parse_authority(new_authority)[1]).ok
    /\ ~parse_host(parse_authority(new_authority)[2]).ok

\* try: info.origin = new_origin
TryOrigin ==
    /\ CanAssign
    /\ \E new_origin \in OriginTexts :
           \E r \in {origin_setter(info, new_origin)}, parsed \in {parse_origin(new_origin)} :
               /\ info' = r.self
               /\ op' = Assigned("origin", r, IF parsed.ok THEN parse_authority(parsed.authority)[2] ELSE None)
               /\ fn' = [pc |-> "tried", before |-> info, ok |-> r.ok,
                         host_raised |-> parsed.ok /\ HostPartRaised(info, parsed.authority)]
    /\ UNCHANGED <<cache, encCall, rt, fp, qc, reparsed>>

\* try: info.authority = new_authority
TryAuthority ==
    /\ CanAssign
    /\ \E new_authority \in AuthorityTexts \cup {S(<<"u", ":", "p", "@", "h", ":", "x">>)} :
           \E r \in {authority_setter(info, new_authority)} :
               /\ info' = r.self
               /\ op' = Assigned("authority", r, parse_authority(new_authority)[2])
               /\ fn' = [pc |-> "tried", before |-> info, ok |-> r.ok,
                         host_raised |-> HostPartRaised(info, new_authority)]
    /\ UNCHANGED <<cache, encCall, rt, fp, qc, reparsed>>

NextTry == Construct \/ ParseNew \/ TryOrigin \/ TryAuthority

SpecTry == InitViews /\ [][NextTry]_vars

\* C28: when an assignment to authority or origin raises because the host or
\* port part is invalid, scheme, username, password, hostname, address and
\* port are what they were before the assignment.
C28_FailedAssignmentChangesNothing ==
    (fn.pc = "tried" /\ ~fn.ok /\ fn.host_raised) =>
        /\ info.scheme = fn.before.scheme
        /\ info.username = fn.before.username
        /\ info.password = fn.before.password
        /\ info.hostname = fn.before.hostname
        /\ info.address = fn.before.address
        /\ info.port = fn.before.port

----------------------------------------------------------------------------
(* normalize_path and normalize_query applied to their own result, and the  *)
(* resource of an object that stores a normalized query                     *)

MaxTwiceLen == 4

TwiceTexts ==
    SeqsUpTo({Ord("."), Ord("/"), Ord("%"), Ord("a"), Ord(" "), Ord("+"), 233}, MaxTwiceLen)
        \cup { S(<<"/", "%", "c", "3", "%", "b", "6", "_", " ", "_">>) \o <<240, 47>>,
               S(<<"%", "c", "3", "%", "b", "6", "=", " ", "#", "&", "_", "=">>) \o <<240>>,
               S(<<"/", "a", "/", ".", ".", "/", ".", ".", "/", "b", "/", ".">>),
               S(<<"a", "?", "<", ">", "\"">>) \o <<BACKTICK, 9, 127>>,
               S(<<"%", "%", "a", "f", "%", "a", "%", "2", "5", "2", "0">>), <<97, 56448>> }

InitTwice ==
    /\ OnlyFn
    /\ \E text \in TwiceTexts, name \in {"normalize_path", "normalize_query"} :
           fn = [pc |-> "start", name |-> name, text |-> text, ok |-> FALSE,
                 once |-> None, twice |-> None, rendered |-> None]

\* once = normalize_path(text), or once = normalize_query(text)
NormalizeOnce ==
    /\ fn.pc = "start"
    /\ \E r \in {IF fn.name = "normalize_path" THEN normalize_path(cache, fn.text)
                 ELSE normalize_query(cache, fn.text)} :
           /\ cache' = r.cache
           /\ fn' = IF r.ok THEN [fn EXCEPT !.pc = "once", !.ok = TRUE, !.once = r.out]
                    ELSE [fn EXCEPT !.pc = "raised"]
    /\ UNCHANGED <<encCall, rt, fp, qc, info, reparsed, op>>

\* twice = normalize_path(once), or twice = normalize_query(once)
NormalizeTwice ==
    /\ fn.pc = "once"
    /\ \E r \in {IF fn.name = "normalize_path" THEN normalize_path(cache, fn.once)
                 ELSE normalize_query(cache, fn.once)} :
           /\ cache' = r.cache
           /\ fn' = IF r.ok THEN [fn EXCEPT !.pc = "twice", !.twice = r.out]
                    ELSE [fn EXCEPT !.pc = "raised"]
    /\ UNCHANGED <<encCall, rt, fp, qc, info, reparsed, op>>

\* info = URLInfo('http', 'h', 80, '/') with the query once; rendered = info.resource
RenderStoredQuery ==
    /\ fn.pc = "twice"
    /\ fn.name = "normalize_query"
    /\ \E self \in {[URLInfo(HTTP, S(<<"h">>), 80, SLASH) EXCEPT !.query = fn.once]} :
           \E r \in {resource(cache, self)} :
               /\ r.ok
               /\ cache' = r.cache
               /\ info' = self
               /\ fn' = [fn EXCEPT !.pc = "rendered", !.rendered = r.out]
    /\ UNCHANGED <<encCall, rt, fp, qc, reparsed, op>>

NextTwice == NormalizeOnce \/ NormalizeTwice \/ RenderStoredQuery

SpecTwice == InitTwice /\ [][NextTwice]_vars

\* C29: normalize_path and normalize_query return their own result
\* unchanged, and the resource of an object that stores a normalized query
\* shows that query as it is stored.
C29_NormalizeIdempotent ==
    /\ fn.pc = "raised" => ~fn.ok
    /\ fn.pc \in {"twice", "rendered"} => fn.twice = fn.once
    /\ fn.pc = "rendered" =>
           fn.rendered = SLASH \o (IF Len(fn.once) > 0 THEN S(<<"?">>) \o fn.once ELSE <<>>)

C29_Witness ==
    /\ fn.pc = "rendered"
    /\ fn.text = S(<<"%", "c", "3", "%", "b", "6", "=", " ", "#", "&", "_", "=">>) \o <<240>>
    /\ fn.once = S(<<"%", "C", "3", "%", "B", "6", "=", "+", "%", "2", "3", "&", "_", "=", "%", "C", "3", "%", "B", "0">>)
    /\ fn.twice = fn.once

----------------------------------------------------------------------------
(* The url of an http object with a username and a password, parsed again   *)

MaxCredLen == 3

Usernames ==
    SeqsUpTo({Ord("%"), Ord("4"), Ord("1"), Ord(":"), Ord("@"), Ord("/")}, MaxCredLen)
        \cup { S(<<"u", "s", "e", "r">>), S(<<"a", " ", "b", "?", "#">>), <<233>> }

Passwords ==
    { <<>>, S(<<"p">>), S(<<"%", "4", "1">>), S(<<":", "@", "/">>), S(<<"1", "%">>), <<233, 32>> }

InitCreds ==
    /\ OnlyFn
    /\ \E username \in Usernames, password \in Passwords :
           fn = [pc |-> "start", username |-> username, password |-> password, url |-> None, ok |-> FALSE]

\* info = URLInfo('http', 'h', 80, '/'); info.username = username;
\* info.password = password; url = info.url
RenderCreds ==
    /\ fn.pc = "start"
    /\ \E self \in {[URLInfo(HTTP, S(<<"h">>), 80, SLASH) EXCEPT !.username = fn.username,
                                                                 !.password = fn.password]} :
           \E r \in {url(cache, self)} :
               /\ r.ok
               /\ cache' = r.cache
               /\ info' = self
               /\ fn' = [fn EXCEPT !.pc = "rendered", !.url = r.out]
    /\ UNCHANGED <<encCall, rt, fp, qc, reparsed, op>>

\* reparsed = URLInfo.parse(url)
ParseCreds ==
    /\ fn.pc = "rendered"
    /\ \E r \in {parse(cache, fn.url, HTTP)} :
           /\ cache' = r.cache
           /\ reparsed' = r.info
           /\ fn' = [fn EXCEPT !.pc = "parsed", !.ok = r.ok]
    /\ UNCHANGED <<encCall, rt, fp, qc, info, op>>

NextCreds == RenderCreds \/ ParseCreds

SpecCreds == InitCreds /\ [][NextCreds]_vars

\* None and the empty text taken alike.
OrEmpty(text) == IF text = None THEN <<>> ELSE text

\* C30: parsing the url of an http object with hostname, username u and
\* password p gives an object with username u and password p.
C30_CredentialsSurvive ==
    fn.pc = "parsed" =>
        /\ fn.ok
        /\ OrEmpty(reparsed.username) = fn.username
        /\ OrEmpty(reparsed.password) = fn.password

====
